---- MODULE Spec2Model ----
(***************************************************************************)
(* Model of the text-transform library of the encryption messenger         *)
(* (src/unnamed/part_003, the "@/lib/encryption" module) and of the LSB    *)
(* steganography module (src/src/lib/steganography.ts).                    *)
(*                                                                         *)
(* A JavaScript string is modelled as the sequence of its UTF-16 code      *)
(* units (integers 0..65535).  A call that may throw yields a record       *)
(* [threw, value, error].  Every family of functions has a specification   *)
(* of its own (SpecCaesar, SpecXor, ...) whose Init draws the arguments    *)
(* from bounded sets and whose actions apply the functions as the UI       *)
(* handlers do.                                                            *)
(***************************************************************************)
EXTENDS Integers, Sequences, FiniteSets, TLC

VARIABLES
  pc,          \* position of the caller: which call has returned last
  cMessage,    \* Caesar: the message argument
  cShift,      \* Caesar: the shift argument
  cEncoded,    \* Caesar: encodeMessage(cMessage, cShift)
  cDecoded,    \* Caesar: decodeMessage(cEncoded, cShift)
  xMessage,    \* XOR: the message argument of encryptMessage
  xPassword,   \* XOR: the password argument of both calls
  xCipher,     \* XOR: the encryptedMessage argument of decryptMessage
  xEncrypted,  \* XOR: outcome of encryptMessage(xMessage, xPassword)
  xDecrypted,  \* XOR: outcome of decryptMessage(xCipher, xPassword)
  bText,       \* Base64: the text argument of base64Encode
  bInput,      \* Base64: the encodedText argument of base64Decode
  bEncoded,    \* Base64: outcome of base64Encode(bText)
  bDecoded,    \* Base64: outcome of base64Decode(bInput)
  hCodec,      \* Hex/binary: the codec exercised, "hex" or "binary"
  hText,       \* Hex/binary: the text argument of textToHex / textToBinary
  hInput,      \* Hex/binary: the argument of hexToText / binaryToText
  hEncoded,    \* Hex/binary: textToHex(hText) or textToBinary(hText)
  hDecoded,    \* Hex/binary: outcome of hexToText(hInput) / binaryToText(hInput)
  dText,       \* Detection: the text argument of autoDetectCipher
  dLabel,      \* Detection: the label autoDetectCipher returned
  imageData,   \* Steganography: the RGBA bytes of the canvas, row by row
  sText,       \* Steganography: the text argument of the last hideTextInImage
  sBefore,     \* Steganography: the bytes passed to the last hideTextInImage
  sHidden,     \* Steganography: outcome of hideTextInImage(sBefore, sText)
  sInputAfter, \* Steganography: the bytes of the argument after that call
  sExtracted,  \* Steganography: outcome of extractTextFromImage(imageData)
  gText,       \* Hash: the text argument of generateMD5Hash
  gHash,       \* Hash: generateMD5Hash(gText)
  tText,       \* Strength: the text argument of calculateStrength
  tStrength,   \* Strength: the record calculateStrength(tText) returned
  pFn,         \* Promise: "hide" (createHiddenImageCanvas) or "extract"
  pFile,       \* Promise: the RGBA bytes the file decodes to
  pReadable,   \* Promise: whether the browser can decode the file as an image
  pCtx,        \* Promise: whether canvas.getContext('2d') returned a context
  pText,       \* Promise: the text argument of createHiddenImageCanvas
  pLoads,      \* Promise: how many times img.src has been assigned
  pEvent,      \* Promise: the event the image has dispatched, "none" so far
  pCalls,      \* Promise: the calls of resolve and reject so far, in order
  pPromise,    \* Promise: the state of the returned promise
  aUsers,      \* Auth: localStorage 'mock_users', absent or a list of users
  aSession,    \* Auth: localStorage 'mock_session', NullSession when absent
  aCallback,   \* Auth: window.__authCallback, a listener or 0 when absent
  aTimers,     \* Auth: the pending timers, in the order they were scheduled
  aListeners,  \* Auth: the number of onAuthStateChange calls (listeners 1..n)
  aUnsubscribed, \* Auth: the listeners whose unsubscribe() has been called
  aRemovedOther, \* Auth: an unsubscribe() deleted a callback that was not its own
  aDelivered,  \* Auth: the latest invocation of a listener
  aAfterUnsubscribe, \* Auth: a listener was invoked after its unsubscribe()
  aOutOfOrder, \* Auth: an event arrived after the event of a later write
  aCallCount,  \* Auth: the number of signUp, signIn and signOut calls so far
  aWrites,     \* Auth: the number of writes of the session store so far
  aSignedOut,  \* Auth: signOut was called and no signIn or signUp since
  aLast,       \* Auth: the last signUp or signIn that returned
  chatId,      \* ChatView: the chatId prop (the selected chat)
  messages,    \* ChatView: the messages state
  newMessage,  \* ChatView: the newMessage state (the input field)
  selectedMessages, \* ChatView: the selectedMessages state (message ids)
  chatTimers,  \* ChatView: the pending timers, in the order they were scheduled
  chatNow,     \* ChatView: the value of Date.now()
  chatOps,     \* ChatView: the number of user operations so far
  chatMisdelivered, \* ChatView: a reply joined the loaded list of another chat
  lastQuick    \* ChatView: the last Quick Encode / Quick Decode of the menu

caesarVars == <<cMessage, cShift, cEncoded, cDecoded>>
xorVars == <<xMessage, xPassword, xCipher, xEncrypted, xDecrypted>>
b64Vars == <<bText, bInput, bEncoded, bDecoded>>
hexVars == <<hCodec, hText, hInput, hEncoded, hDecoded>>
detectVars == <<dText, dLabel>>
stegoVars == <<imageData, sText, sBefore, sHidden, sInputAfter, sExtracted>>
hashVars == <<gText, gHash>>
strengthVars == <<tText, tStrength>>
promiseVars == <<pFn, pFile, pReadable, pCtx, pText, pLoads, pEvent, pCalls, pPromise>>
authVars == <<aUsers, aSession, aCallback, aTimers, aListeners, aUnsubscribed,
              aRemovedOther, aDelivered, aAfterUnsubscribe, aOutOfOrder,
              aCallCount, aWrites, aSignedOut, aLast>>
chatVars == <<chatId, messages, newMessage, selectedMessages, chatTimers,
              chatNow, chatOps, chatMisdelivered, lastQuick>>
vars == <<pc, caesarVars, xorVars, b64Vars, hexVars, detectVars, stegoVars,
          hashVars, strengthVars, promiseVars,
          authVars, chatVars>>

(***************************************************************************)
(* JavaScript primitives used by the library.                              *)
(***************************************************************************)

\* A normal return of value v.
Ok(v) == [threw |-> FALSE, value |-> v, error |-> ""]

\* An exception named e leaving the call.
Throw(e) == [threw |-> TRUE, value |-> <<>>, error |-> e]

\* The % operator of JavaScript: the remainder takes the sign of the dividend.
JsRem(a, b) == IF a >= 0 THEN a % b ELSE 0 - ((0 - a) % b)

\* String.fromCharCode(n): ToUint16 of the number.
fromCharCode(n) == n % 65536

\* All sequences over S of length 0..n.
SeqUpTo(S, n) == UNION {[1..k -> S] : k \in 0..n}

IsUpper(c) == c \in 65..90
IsLower(c) == c \in 97..122
\* /[a-z]/i without the u flag: only the ASCII letters match.
IsLetter(c) == IsUpper(c) \/ IsLower(c)
IsAscii(s) == \A i \in 1..Len(s) : s[i] \in 0..127

(***************************************************************************)
(* The functions are stateless: while one family is exercised the          *)
(* variables of the others rest at these values.                           *)
(***************************************************************************)

CaesarIdle ==
  /\ cMessage = <<>>
  /\ cShift = 0
  /\ cEncoded = <<>>
  /\ cDecoded = <<>>

XorIdle ==
  /\ xMessage = <<>>
  /\ xPassword = <<>>
  /\ xCipher = <<>>
  /\ xEncrypted = Ok(<<>>)
  /\ xDecrypted = Ok(<<>>)

B64Idle ==
  /\ bText = <<>>
  /\ bInput = <<>>
  /\ bEncoded = Ok(<<>>)
  /\ bDecoded = Ok(<<>>)

HexIdle ==
  /\ hCodec = "hex"
  /\ hText = <<>>
  /\ hInput = <<>>
  /\ hEncoded = <<>>
  /\ hDecoded = Ok(<<>>)

DetectIdle ==
  /\ dText = <<>>
  /\ dLabel = ""

StegoIdle ==
  /\ imageData = <<>>
  /\ sText = <<>>
  /\ sBefore = <<>>
  /\ sHidden = Ok(<<>>)
  /\ sInputAfter = <<>>
  /\ sExtracted = Ok(<<>>)

HashIdle ==
  /\ gText = <<>>
  /\ gHash = <<>>

StrengthIdle ==
  /\ tText = <<>>
  /\ tStrength = [score |-> 0, label |-> "", color |-> ""]

\* A pending promise: neither resolve nor reject has been called.
Pending == [state |-> "pending", value |-> <<>>, error |-> ""]

PromiseIdle ==
  /\ pFn = "hide"
  /\ pFile = <<>>
  /\ pReadable = FALSE
  /\ pCtx = FALSE
  /\ pText = <<>>
  /\ pLoads = 0
  /\ pEvent = "none"
  /\ pCalls = <<>>
  /\ pPromise = Pending

\* getSession() === null: no session is stored.
NullSession == [user |-> [id |-> "", email |-> ""], access_token |-> <<>>]

\* localStorage without the key 'mock_users'.
NoUsers == [present |-> FALSE, list |-> <<>>]

\* No signUp or signIn has returned yet.
NoCall ==
  [fn |-> "", email |-> "", password |-> "", error |-> "",
   user |-> [id |-> "", email |-> ""],
   usersBefore |-> NoUsers, sessionBefore |-> NullSession,
   usersAfter |-> NoUsers, sessionAfter |-> NullSession]

\* No listener has been invoked yet.
NoDelivery ==
  [listener |-> 0, event |-> "", session |-> NullSession, write |-> 0]

AuthIdle ==
  /\ aUsers = NoUsers
  /\ aSession = NullSession
  /\ aCallback = 0
  /\ aTimers = <<>>
  /\ aListeners = 0
  /\ aUnsubscribed = {}
  /\ aRemovedOther = FALSE
  /\ aDelivered = NoDelivery
  /\ aAfterUnsubscribe = FALSE
  /\ aOutOfOrder = FALSE
  /\ aCallCount = 0
  /\ aWrites = 0
  /\ aSignedOut = FALSE
  /\ aLast = NoCall

\* No Quick Encode or Quick Decode has run yet.
NoQuick == [op |-> "", content |-> <<>>, loaded |-> <<>>]

ChatIdle ==
  /\ chatId = ""
  /\ messages = <<>>
  /\ newMessage = <<>>
  /\ selectedMessages = <<>>
  /\ chatTimers = <<>>
  /\ chatNow = 0
  /\ chatOps = 0
  /\ chatMisdelivered = FALSE
  /\ lastQuick = NoQuick

\* Everything but the ChatView variables, and its resting state.
notChat == <<caesarVars, xorVars, b64Vars, hexVars, detectVars, stegoVars,
  hashVars, strengthVars, promiseVars,
  authVars>>
NotChatIdle ==
  CaesarIdle /\ XorIdle /\ B64Idle /\ HexIdle /\ DetectIdle /\ StegoIdle
  /\ HashIdle /\ StrengthIdle /\ PromiseIdle
  /\ AuthIdle

\* Everything but the Caesar variables, and its resting state.
notCaesar == <<xorVars, b64Vars, hexVars, detectVars, stegoVars,
  hashVars, strengthVars, promiseVars,
  authVars,
  chatVars>>
NotCaesarIdle ==
  XorIdle /\ B64Idle /\ HexIdle /\ DetectIdle /\ StegoIdle
  /\ HashIdle /\ StrengthIdle /\ PromiseIdle
  /\ AuthIdle
  /\ ChatIdle

\* Everything but the XOR variables, and its resting state.
notXor == <<caesarVars, b64Vars, hexVars, detectVars, stegoVars,
  hashVars, strengthVars, promiseVars,
  authVars,
  chatVars>>
NotXorIdle ==
  CaesarIdle /\ B64Idle /\ HexIdle /\ DetectIdle /\ StegoIdle
  /\ HashIdle /\ StrengthIdle /\ PromiseIdle
  /\ AuthIdle
  /\ ChatIdle

\* Everything but the Base64 variables, and its resting state.
notB64 == <<caesarVars, xorVars, hexVars, detectVars, stegoVars,
  hashVars, strengthVars, promiseVars,
  authVars,
  chatVars>>
NotB64Idle ==
  CaesarIdle /\ XorIdle /\ HexIdle /\ DetectIdle /\ StegoIdle
  /\ HashIdle /\ StrengthIdle /\ PromiseIdle
  /\ AuthIdle
  /\ ChatIdle

\* Everything but the hex/binary variables, and its resting state.
notHex == <<caesarVars, xorVars, b64Vars, detectVars, stegoVars,
  hashVars, strengthVars, promiseVars,
  authVars,
  chatVars>>
NotHexIdle ==
  CaesarIdle /\ XorIdle /\ B64Idle /\ DetectIdle /\ StegoIdle
  /\ HashIdle /\ StrengthIdle /\ PromiseIdle
  /\ AuthIdle
  /\ ChatIdle

\* Everything but the detection variables, and its resting state.
notDetect == <<caesarVars, xorVars, b64Vars, hexVars, stegoVars,
  hashVars, strengthVars, promiseVars,
  authVars,
  chatVars>>
NotDetectIdle ==
  CaesarIdle /\ XorIdle /\ B64Idle /\ HexIdle /\ StegoIdle
  /\ HashIdle /\ StrengthIdle /\ PromiseIdle
  /\ AuthIdle
  /\ ChatIdle

\* Everything but the hash variables, and its resting state.
notHash == <<caesarVars, xorVars, b64Vars, hexVars, detectVars, stegoVars,
  strengthVars, promiseVars,
  authVars,
  chatVars>>
NotHashIdle ==
  CaesarIdle /\ XorIdle /\ B64Idle /\ HexIdle /\ DetectIdle /\ StegoIdle
  /\ StrengthIdle /\ PromiseIdle
  /\ AuthIdle
  /\ ChatIdle

\* Everything but the strength variables, and its resting state.
notStrength == <<caesarVars, xorVars, b64Vars, hexVars, detectVars, stegoVars,
  hashVars, promiseVars,
  authVars,
  chatVars>>
NotStrengthIdle ==
  CaesarIdle /\ XorIdle /\ B64Idle /\ HexIdle /\ DetectIdle /\ StegoIdle
  /\ HashIdle /\ PromiseIdle
  /\ AuthIdle
  /\ ChatIdle

\* Everything but the promise variables, and its resting state.
notPromise == <<caesarVars, xorVars, b64Vars, hexVars, detectVars, stegoVars,
  hashVars, strengthVars,
  authVars,
  chatVars>>
NotPromiseIdle ==
  CaesarIdle /\ XorIdle /\ B64Idle /\ HexIdle /\ DetectIdle /\ StegoIdle
  /\ HashIdle /\ StrengthIdle
  /\ AuthIdle
  /\ ChatIdle

\* Everything but the auth variables, and its resting state.
notAuth == <<caesarVars, xorVars, b64Vars, hexVars, detectVars, stegoVars,
  hashVars, strengthVars, promiseVars,
  chatVars>>
NotAuthIdle ==
  CaesarIdle /\ XorIdle /\ B64Idle /\ HexIdle /\ DetectIdle /\ StegoIdle
  /\ HashIdle /\ StrengthIdle /\ PromiseIdle
  /\ ChatIdle

\* Everything but the steganography variables, and its resting state.
notStego == <<caesarVars, xorVars, b64Vars, hexVars, detectVars,
  hashVars, strengthVars, promiseVars,
  authVars,
  chatVars>>
NotStegoIdle ==
  CaesarIdle /\ XorIdle /\ B64Idle /\ HexIdle /\ DetectIdle
  /\ HashIdle /\ StrengthIdle /\ PromiseIdle
  /\ AuthIdle
  /\ ChatIdle

(***************************************************************************)
(* Caesar cipher.                                                          *)
(***************************************************************************)

\* Bug variant of encodeChar: the wrap-around "% 26" is missing.
encodeCharNoWrap(code, shift) ==
  IF IsLetter(code)
    THEN LET base == IF code >= 65 /\ code <= 90 THEN 65 ELSE 97
         IN  fromCharCode((code - base + shift) + base)
    ELSE code

\* Bug variant of encodeChar: the base is always that of the lowercase letters.
encodeCharLowerBase(code, shift) ==
  IF IsLetter(code)
    THEN fromCharCode(JsRem(code - 97 + shift, 26) + 97)
    ELSE code

\* The callback of map in encodeMessage, on the code unit of one character.
encodeChar(code, shift) ==
  IF IsLetter(code)
    THEN LET base == IF code >= 65 /\ code <= 90 THEN 65 ELSE 97
         IN  fromCharCode(JsRem(code - base + shift, 26) + base)
    ELSE code

encodeMessage(message, shift) ==
  [i \in 1..Len(message) |-> encodeChar(message[i], shift)]

\* Bug variant of decodeMessage: it shifts back by a negative shift.
decodeMessageNegativeShift(encodedMessage, shift) ==
  encodeMessage(encodedMessage, 0 - shift)

decodeMessage(encodedMessage, shift) == encodeMessage(encodedMessage, 26 - shift)

\* Bounds of the Caesar inputs.
CaesarMaxLen == 2

\* Boundary characters: space, @ A M Z [ ` a m z {, e-acute, long s.
CaesarChars == {32, 64, 65, 77, 90, 91, 96, 97, 109, 122, 123, 233, 383}

\* Every one-character ASCII string, and every string over the boundary
\* characters up to the length bound.
CaesarMessages ==
  {<<c>> : c \in 0..127} \cup SeqUpTo(CaesarChars, CaesarMaxLen)

Shifts == 0..26

InitCaesar ==
  /\ pc = "start"
  /\ cMessage \in CaesarMessages
  /\ cShift \in Shifts
  /\ cEncoded = <<>>
  /\ cDecoded = <<>>
  /\ NotCaesarIdle

\* The caller encodes the message (handleQuickEncode, the Encode button).
CaesarEncode ==
  /\ pc = "start"
  /\ cEncoded' = encodeMessage(cMessage, cShift)
  /\ pc' = "encoded"
  /\ UNCHANGED <<cMessage, cShift, cDecoded, notCaesar>>

\* The caller decodes what was encoded, with the same shift.
CaesarDecode ==
  /\ pc = "encoded"
  /\ cDecoded' = decodeMessage(cEncoded, cShift)
  /\ pc' = "decoded"
  /\ UNCHANGED <<cMessage, cShift, cEncoded, notCaesar>>

NextCaesar == CaesarEncode \/ CaesarDecode

SpecCaesar == InitCaesar /\ [][NextCaesar]_vars

\* C1: Caesar round trip -- for every shift in 1..25 and every ASCII string x,
\* decodeMessage(encodeMessage(x, s), s) = x.
C1_CaesarRoundTrip ==
  (pc = "decoded" /\ cShift \in 1..25 /\ IsAscii(cMessage)) => cDecoded = cMessage

\* A two-letter ASCII message whose letters wrap past z/Z has been encoded to
\* something else and decoded back.
C1_Witness ==
  /\ pc = "decoded"
  /\ cShift = 3
  /\ cMessage = <<122, 90>>
  /\ cEncoded = <<99, 67>>
  /\ cDecoded = cMessage

\* C11: shift 0 and shift 26 are accepted and are the identity -- for every
\* string x, encodeMessage(x, 0), encodeMessage(x, 26), decodeMessage(x, 0) and
\* decodeMessage(x, 26) all equal x.  (The decode runs on the encoded text,
\* which the first conjunct shows to be x itself.)
C11_ShiftZeroAnd26Identity ==
  (pc \in {"encoded", "decoded"} /\ cShift \in {0, 26})
  => /\ cEncoded = cMessage
     /\ pc = "decoded" => cDecoded = cMessage

\* "zZ" went through encode and decode with shift 26 and stayed "zZ".
C11_Witness ==
  /\ pc = "decoded"
  /\ cShift = 26
  /\ cMessage = <<122, 90>>
  /\ cEncoded = <<122, 90>>
  /\ cDecoded = <<122, 90>>

\* C12: for every shift s in 0..26 and every string x, encodeMessage(x, s) is as
\* long as x; at each position an uppercase letter becomes the uppercase letter
\* s places later (wrapping from Z to A), a lowercase letter the lowercase
\* letter s places later (wrapping from z to a), and any other character is
\* copied.
C12_EncodeShiftsLetters ==
  (pc = "encoded" /\ cShift \in 0..26)
  => /\ Len(cEncoded) = Len(cMessage)
     /\ \A i \in 1..Len(cMessage) :
          IF cMessage[i] \in 65..90
            THEN cEncoded[i] \in 65..90 /\ (cEncoded[i] - cMessage[i] - cShift) % 26 = 0
          ELSE IF cMessage[i] \in 97..122
            THEN cEncoded[i] \in 97..122 /\ (cEncoded[i] - cMessage[i] - cShift) % 26 = 0
          ELSE cEncoded[i] = cMessage[i]

\* "Z{" encoded with shift 5 is "E{": the letter wrapped, the brace was copied.
C12_Witness ==
  /\ pc = "encoded"
  /\ cShift = 5
  /\ cMessage = <<90, 123>>
  /\ cEncoded = <<69, 123>>

(***************************************************************************)
(* btoa and atob of the browser (WHATWG forgiving-base64).                 *)
(***************************************************************************)

\* The base64 character of a 6-bit value: A-Z a-z 0-9 + /
B64Char(v) ==
  IF v < 26 THEN 65 + v
  ELSE IF v < 52 THEN 97 + (v - 26)
  ELSE IF v < 62 THEN 48 + (v - 52)
  ELSE IF v = 62 THEN 43 ELSE 47

IsB64Char(c) == IsUpper(c) \/ IsLower(c) \/ c \in 48..57 \/ c = 43 \/ c = 47

\* The 6-bit value of a base64 character.
B64Value(c) ==
  IF IsUpper(c) THEN c - 65
  ELSE IF IsLower(c) THEN c - 97 + 26
  ELSE IF c \in 48..57 THEN c - 48 + 52
  ELSE IF c = 43 THEN 62 ELSE 63

\* Base64 of a byte string, three bytes to four characters, padded with '='.
RECURSIVE B64EncodeBytes(_)
B64EncodeBytes(b) ==
  IF Len(b) = 0 THEN <<>>
  ELSE IF Len(b) = 1 THEN
    <<B64Char(b[1] \div 4), B64Char((b[1] % 4) * 16), 61, 61>>
  ELSE IF Len(b) = 2 THEN
    <<B64Char(b[1] \div 4), B64Char((b[1] % 4) * 16 + b[2] \div 16),
      B64Char((b[2] % 16) * 4), 61>>
  ELSE
    <<B64Char(b[1] \div 4), B64Char((b[1] % 4) * 16 + b[2] \div 16),
      B64Char((b[2] % 16) * 4 + b[3] \div 64), B64Char(b[3] % 64)>>
    \o B64EncodeBytes(SubSeq(b, 4, Len(b)))

\* btoa(s): InvalidCharacterError when a code unit is above 255.
btoa(s) ==
  IF \E i \in 1..Len(s) : s[i] > 255
    THEN Throw("InvalidCharacterError")
    ELSE Ok(B64EncodeBytes(s))

\* ASCII whitespace, which atob removes first: TAB LF FF CR SPACE.
IsAsciiWhitespace(c) == c \in {9, 10, 12, 13, 32}

\* The bytes of a string of base64 characters whose length is not 1 mod 4.
RECURSIVE B64DecodeChars(_)
B64DecodeChars(d) ==
  IF Len(d) < 2 THEN <<>>
  ELSE IF Len(d) = 2 THEN
    <<B64Value(d[1]) * 4 + B64Value(d[2]) \div 16>>
  ELSE IF Len(d) = 3 THEN
    <<B64Value(d[1]) * 4 + B64Value(d[2]) \div 16,
      (B64Value(d[2]) % 16) * 16 + B64Value(d[3]) \div 4>>
  ELSE
    <<B64Value(d[1]) * 4 + B64Value(d[2]) \div 16,
      (B64Value(d[2]) % 16) * 16 + B64Value(d[3]) \div 4,
      (B64Value(d[3]) % 4) * 64 + B64Value(d[4])>>
    \o B64DecodeChars(SubSeq(d, 5, Len(d)))

\* atob(s): strip ASCII whitespace; when the length is a multiple of 4 drop
\* one or two trailing '='; fail on length 1 mod 4 or on a character outside
\* the alphabet; otherwise decode.
atob(s) ==
  LET data == SelectSeq(s, LAMBDA c : ~IsAsciiWhitespace(c))
      n == Len(data)
      pad == IF n % 4 = 0 /\ n > 0 /\ data[n] = 61
               THEN (IF data[n - 1] = 61 THEN 2 ELSE 1)
               ELSE 0
      body == SubSeq(data, 1, n - pad)
  IN  IF Len(body) % 4 = 1 \/ \E i \in 1..Len(body) : ~IsB64Char(body[i])
        THEN Throw("InvalidCharacterError")
        ELSE Ok(B64DecodeChars(body))

(***************************************************************************)
(* XOR "encryption".                                                       *)
(***************************************************************************)

\* The ^ operator on non-negative integers.
RECURSIVE BitXor(_, _)
BitXor(a, b) ==
  IF a = 0 THEN b
  ELSE IF b = 0 THEN a
  ELSE (((a % 2) + (b % 2)) % 2) + 2 * BitXor(a \div 2, b \div 2)

\* Bug variant of XorWithPassword: the password index is one too far.
XorWithPasswordIndexOff(text, password) ==
  [i \in 1..Len(text) |->
     fromCharCode(BitXor(text[i], password[(i % Len(password)) + 1]))]

\* The loop shared by both functions: text[i] ^ password[i % password.length].
XorWithPassword(text, password) ==
  [i \in 1..Len(text) |->
     fromCharCode(BitXor(text[i], password[((i - 1) % Len(password)) + 1]))]

\* Bug variant of encryptMessage: no early return for the empty password (the
\* XOR with the missing character leaves every code unit as it is).
encryptMessageNoGuard(message, password) ==
  IF Len(password) = 0 THEN btoa(message)
  ELSE btoa(XorWithPassword(message, password))

encryptMessage(message, password) ==
  IF Len(password) = 0 THEN Ok(message)
  ELSE btoa(XorWithPassword(message, password))

\* Bug variant of decryptMessage: no try/catch around the decoding.
decryptMessageNoCatch(encryptedMessage, password) ==
  IF Len(password) = 0 THEN Ok(encryptedMessage)
  ELSE LET decoded == atob(encryptedMessage)
       IN  IF decoded.threw
             THEN decoded
             ELSE Ok(XorWithPassword(decoded.value, password))

decryptMessage(encryptedMessage, password) ==
  IF Len(password) = 0 THEN Ok(encryptedMessage)
  ELSE LET decoded == atob(encryptedMessage)
       IN  IF decoded.threw
             THEN Ok(encryptedMessage)    \* catch: return the original
             ELSE Ok(XorWithPassword(decoded.value, password))

\* Bounds of the XOR inputs.
XorMaxLen == 4
XorMaxKeyLen == 2
XorMaxCipherLen == 4

\* NUL, 'a', 0xC8, 0xFF and the euro sign.
XorMessageChars == {0, 97, 200, 255, 8364}
\* 'k', 0xFF and the first code unit above one byte.
XorPasswordChars == {107, 255, 256}
\* 'Y', 'Q', '=', '!', SPACE.
XorCipherChars == {89, 81, 61, 33, 32}

\* Either a message to encrypt, or a text typed into the decrypt box.
InitXor ==
  /\ xPassword \in SeqUpTo(XorPasswordChars, XorMaxKeyLen)
  /\ \/ /\ pc = "plain"
        /\ xMessage \in SeqUpTo(XorMessageChars, XorMaxLen)
        /\ xCipher = <<>>
     \/ /\ pc = "received"
        /\ xMessage = <<>>
        /\ xCipher \in SeqUpTo(XorCipherChars, XorMaxCipherLen)
  /\ xEncrypted = Ok(<<>>)
  /\ xDecrypted = Ok(<<>>)
  /\ NotXorIdle

\* handleEncrypt: encryptMessage(inputText, password); the output becomes the
\* text to decrypt when the call returned.
XorEncrypt ==
  /\ pc = "plain"
  /\ xEncrypted' = encryptMessage(xMessage, xPassword)
  /\ xCipher' = xEncrypted'.value
  /\ pc' = IF xEncrypted'.threw THEN "encryptFailed" ELSE "encrypted"
  /\ UNCHANGED <<xMessage, xPassword, xDecrypted, notXor>>

\* handleDecrypt on the output of the encryption.
XorDecryptEncrypted ==
  /\ pc = "encrypted"
  /\ xDecrypted' = decryptMessage(xCipher, xPassword)
  /\ pc' = "roundTrip"
  /\ UNCHANGED <<xMessage, xPassword, xCipher, xEncrypted, notXor>>

\* handleDecrypt on a text the user typed.
XorDecryptReceived ==
  /\ pc = "received"
  /\ xDecrypted' = decryptMessage(xCipher, xPassword)
  /\ pc' = "decrypted"
  /\ UNCHANGED <<xMessage, xPassword, xCipher, xEncrypted, notXor>>

NextXor == XorEncrypt \/ XorDecryptEncrypted \/ XorDecryptReceived

SpecXor == InitXor /\ [][NextXor]_vars

IsLatin1(s) == \A i \in 1..Len(s) : s[i] \in 0..255

\* C2: XOR round trip -- for every non-empty key (whatever its code units) and
\* every message with code units in 0..255, encryptMessage returns normally and
\* decryptMessage(encryptMessage(x, k), k) returns x.
C2_XorRoundTrip ==
  (pc \in {"encrypted", "encryptFailed", "roundTrip"}
     /\ Len(xPassword) > 0 /\ IsLatin1(xMessage))
  => /\ ~xEncrypted.threw
     /\ pc = "roundTrip" => xDecrypted = Ok(xMessage)

\* C10: decryptMessage with a non-empty password and an input that is not valid
\* base64 fails with an error that reaches the caller.
C10_DecryptInvalidBase64Throws ==
  (pc = "decrypted" /\ Len(xPassword) > 0 /\ atob(xCipher).threw)
  => xDecrypted.threw

\* r is the bitwise exclusive or of the 16-bit numbers a and b, bit by bit.
IsXorOf(r, a, b) ==
  /\ r \in 0..65535
  /\ \A k \in 0..15 :
       ((r \div 2^k) % 2 = 1) <=> ((a \div 2^k) % 2 # (b \div 2^k) % 2)

\* out[i] is text[i] XOR password[i mod len(password)] at every index (0-based
\* i, as in the source).
IsIndexWiseXor(out, text, password) ==
  /\ Len(out) = Len(text)
  /\ \A i \in 0..(Len(text) - 1) :
       IsXorOf(out[i + 1], text[i + 1], password[(i % Len(password)) + 1])

\* Every XOR of a message character with its password character is a byte:
\* the two characters agree in their bits 8..15.
XorResultsAreBytes(message, password) ==
  \A i \in 0..(Len(message) - 1) :
    \A k \in 8..15 :
      (message[i + 1] \div 2^k) % 2
        = (password[(i % Len(password)) + 1] \div 2^k) % 2

\* C13: for a non-empty password p and a message m whose XOR results all lie
\* in 0..255, encryptMessage(m, p) is the base64 encoding of the byte string
\* whose i-th byte is code(m[i]) XOR code(p[i mod len(p)]); decryptMessage
\* applies the same index-wise XOR to the base64-decoded input.
C13_XorThenBase64 ==
  /\ (pc \in {"encrypted", "encryptFailed", "roundTrip"}
        /\ Len(xPassword) > 0 /\ XorResultsAreBytes(xMessage, xPassword))
     => /\ ~xEncrypted.threw
        /\ ~atob(xEncrypted.value).threw
        /\ IsIndexWiseXor(atob(xEncrypted.value).value, xMessage, xPassword)
        /\ xEncrypted = btoa(atob(xEncrypted.value).value)
  /\ (pc \in {"roundTrip", "decrypted"}
        /\ Len(xPassword) > 0 /\ ~atob(xCipher).threw)
     => /\ ~xDecrypted.threw
        /\ IsIndexWiseXor(xDecrypted.value, atob(xCipher).value, xPassword)

\* "a\u00C8\u00FF\u0000" under the password "k\u00FF" is the base64 text
\* "CjeU/w==" of the bytes 0A 37 94 FF, and decrypting it used both password
\* characters in turn.
C13_Witness ==
  /\ pc = "roundTrip"
  /\ xMessage = <<97, 200, 255, 0>>
  /\ xPassword = <<107, 255>>
  /\ xEncrypted = Ok(<<67, 106, 101, 85, 47, 119, 61, 61>>)
  /\ xDecrypted = Ok(<<97, 200, 255, 0>>)

\* C20: decryptMessage never raises -- with a non-empty password, when base64
\* decoding of the input fails it returns the input string unchanged (and in
\* every other case it returns a string too).
C20_DecryptNeverRaises ==
  pc \in {"roundTrip", "decrypted"}
  => /\ ~xDecrypted.threw
     /\ (Len(xPassword) > 0 /\ atob(xCipher).threw) => xDecrypted = Ok(xCipher)

\* "!" is not base64; decrypting it under the password "k" returned "!".
C20_Witness ==
  /\ pc = "decrypted"
  /\ xCipher = <<33>>
  /\ xPassword = <<107>>
  /\ atob(xCipher).threw
  /\ xDecrypted = Ok(<<33>>)


\* C28: with an empty password, encryptMessage returns the message unchanged
\* (neither XOR-ed nor base64-encoded) and decryptMessage returns its input
\* unchanged, for every message, without raising.
C28_EmptyPasswordIdentity ==
  Len(xPassword) = 0
  => /\ pc \in {"encrypted", "encryptFailed", "roundTrip"}
          => xEncrypted = Ok(xMessage)
     /\ pc \in {"roundTrip", "decrypted"} => xDecrypted = Ok(xCipher)

\* "a\u20AC" (the euro sign is no byte) went through both calls with the empty
\* password and came back untouched.
C28_Witness ==
  /\ pc = "roundTrip"
  /\ xPassword = <<>>
  /\ xMessage = <<97, 8364>>
  /\ xEncrypted = Ok(<<97, 8364>>)
  /\ xDecrypted = Ok(<<97, 8364>>)

(***************************************************************************)
(* Base64 of text: btoa(unescape(encodeURIComponent(text))) and            *)
(* decodeURIComponent(escape(atob(encodedText))).                          *)
(***************************************************************************)

IsHighSurrogate(c) == c \in 55296..56319    \* D800..DBFF
IsLowSurrogate(c) == c \in 56320..57343     \* DC00..DFFF

\* Bug variant of Utf8Bytes: U+0800 is taken for a two-byte code point.
Utf8BytesOffByOne(v) ==
  IF v < 128 THEN <<v>>
  ELSE IF v <= 2048 THEN <<192 + v \div 64, 128 + (v % 64)>>
  ELSE IF v < 65536 THEN
    <<224 + v \div 4096, 128 + ((v \div 64) % 64), 128 + (v % 64)>>
  ELSE
    <<240 + v \div 262144, 128 + ((v \div 4096) % 64), 128 + ((v \div 64) % 64),
      128 + (v % 64)>>

\* The UTF-8 octets of code point v, as encodeURIComponent escapes them and
\* unescape turns them into code units 0..255.
Utf8Bytes(v) ==
  IF v < 128 THEN <<v>>
  ELSE IF v < 2048 THEN <<192 + v \div 64, 128 + (v % 64)>>
  ELSE IF v < 65536 THEN
    <<224 + v \div 4096, 128 + ((v \div 64) % 64), 128 + (v % 64)>>
  ELSE
    <<240 + v \div 262144, 128 + ((v \div 4096) % 64), 128 + ((v \div 64) % 64),
      128 + (v % 64)>>

\* unescape(encodeURIComponent(s)): the UTF-8 octets of s; URIError on a
\* surrogate that is not part of a pair.
RECURSIVE Utf8Encode(_)
Utf8Encode(s) ==
  IF Len(s) = 0 THEN Ok(<<>>)
  ELSE IF IsLowSurrogate(s[1]) THEN Throw("URIError")
  ELSE IF IsHighSurrogate(s[1]) THEN
    IF Len(s) < 2 \/ ~IsLowSurrogate(s[2]) THEN Throw("URIError")
    ELSE LET v == (s[1] - 55296) * 1024 + (s[2] - 56320) + 65536
             rest == Utf8Encode(SubSeq(s, 3, Len(s)))
         IN  IF rest.threw THEN rest ELSE Ok(Utf8Bytes(v) \o rest.value)
  ELSE LET rest == Utf8Encode(Tail(s))
       IN  IF rest.threw THEN rest ELSE Ok(Utf8Bytes(s[1]) \o rest.value)

\* The number of octets the lead octet b announces; 0 when b cannot lead.
Utf8SeqLen(b) ==
  IF b < 128 THEN 1
  ELSE IF b \in 192..223 THEN 2
  ELSE IF b \in 224..239 THEN 3
  ELSE IF b \in 240..247 THEN 4
  ELSE 0

IsContinuation(b) == b \in 128..191

\* The code point of a sequence of n octets (continuations already checked).
Utf8Value(o, n) ==
  IF n = 1 THEN o[1]
  ELSE IF n = 2 THEN (o[1] - 192) * 64 + (o[2] - 128)
  ELSE IF n = 3 THEN (o[1] - 224) * 4096 + (o[2] - 128) * 64 + (o[3] - 128)
  ELSE (o[1] - 240) * 262144 + (o[2] - 128) * 4096 + (o[3] - 128) * 64
       + (o[4] - 128)

\* A valid UTF-8 encoding: shortest form, no surrogate, at most U+10FFFF.
Utf8ValidValue(v, n) ==
  IF n = 1 THEN TRUE
  ELSE IF n = 2 THEN v >= 128
  ELSE IF n = 3 THEN v >= 2048 /\ v \notin 55296..57343
  ELSE v >= 65536 /\ v <= 1114111

\* The UTF-16 code units of code point v.
Utf16Units(v) ==
  IF v < 65536 THEN <<v>>
  ELSE <<55296 + (v - 65536) \div 1024, 56320 + ((v - 65536) % 1024)>>

\* decodeURIComponent(escape(b)): b read as UTF-8; URIError when malformed.
RECURSIVE Utf8Decode(_)
Utf8Decode(b) ==
  IF Len(b) = 0 THEN Ok(<<>>)
  ELSE LET n == Utf8SeqLen(b[1])
       IN  IF n = 0 \/ Len(b) < n THEN Throw("URIError")
           ELSE IF \E k \in 2..n : ~IsContinuation(b[k]) THEN Throw("URIError")
           ELSE LET v == Utf8Value(b, n)
                    rest == Utf8Decode(SubSeq(b, n + 1, Len(b)))
                IN  IF ~Utf8ValidValue(v, n) THEN Throw("URIError")
                    ELSE IF rest.threw THEN rest
                    ELSE Ok(Utf16Units(v) \o rest.value)

base64Encode(text) ==
  LET utf8 == Utf8Encode(text)
  IN  IF utf8.threw THEN utf8 ELSE btoa(utf8.value)

\* Bug variant of base64Decode: bytes that are not UTF-8 are returned as they
\* are.
base64DecodeLenient(encodedText) ==
  LET bytes == atob(encodedText)
  IN  IF bytes.threw THEN Throw("Invalid Base64 text")
      ELSE LET text == Utf8Decode(bytes.value)
           IN  IF text.threw THEN bytes ELSE text

base64Decode(encodedText) ==
  LET bytes == atob(encodedText)
  IN  IF bytes.threw THEN Throw("Invalid Base64 text")
      ELSE LET text == Utf8Decode(bytes.value)
           IN  IF text.threw THEN Throw("Invalid Base64 text") ELSE text

\* Bounds of the Base64 inputs.
B64MaxLen == 3
B64MaxInputLen == 4

\* 'A', U+0080, U+07FF, U+0800, the euro sign, the surrogates D83D and DE00
\* (together U+1F600), U+FFFF.
B64TextChars == {65, 128, 2047, 2048, 8364, 55357, 56832, 65535}
\* '/', 'w', 'g', 'A', '=', '!'.
B64InputChars == {47, 119, 103, 65, 61, 33}

\* Either a text to encode, or a text typed into the decode box.
InitB64 ==
  /\ \/ /\ pc = "plain"
        /\ bText \in SeqUpTo(B64TextChars, B64MaxLen)
        /\ bInput = <<>>
     \/ /\ pc = "received"
        /\ bText = <<>>
        /\ bInput \in SeqUpTo(B64InputChars, B64MaxInputLen)
  /\ bEncoded = Ok(<<>>)
  /\ bDecoded = Ok(<<>>)
  /\ NotB64Idle

\* handleBase64Encode: the output becomes the text to decode when the call
\* returned.
B64Encode ==
  /\ pc = "plain"
  /\ bEncoded' = base64Encode(bText)
  /\ bInput' = bEncoded'.value
  /\ pc' = IF bEncoded'.threw THEN "encodeFailed" ELSE "encoded"
  /\ UNCHANGED <<bText, bDecoded, notB64>>

\* handleBase64Decode on the output of the encoding.
B64DecodeEncoded ==
  /\ pc = "encoded"
  /\ bDecoded' = base64Decode(bInput)
  /\ pc' = "roundTrip"
  /\ UNCHANGED <<bText, bInput, bEncoded, notB64>>

\* handleBase64Decode on a text the user typed.
B64DecodeReceived ==
  /\ pc = "received"
  /\ bDecoded' = base64Decode(bInput)
  /\ pc' = "decoded"
  /\ UNCHANGED <<bText, bInput, bEncoded, notB64>>

NextB64 == B64Encode \/ B64DecodeEncoded \/ B64DecodeReceived

SpecB64 == InitB64 /\ [][NextB64]_vars

\* No surrogate code unit of s stands outside a high-low pair.
WellFormedUtf16(s) ==
  \A i \in 1..Len(s) :
    /\ IsHighSurrogate(s[i]) => (i < Len(s) /\ IsLowSurrogate(s[i + 1]))
    /\ IsLowSurrogate(s[i]) => (i > 1 /\ IsHighSurrogate(s[i - 1]))

\* C3 as stated: Base64 round trip -- for every string x, unpaired surrogates
\* included, base64Encode(x) returns normally and
\* base64Decode(base64Encode(x)) = x.
C3_B64RoundTripAnyString ==
  (pc \in {"encoded", "encodeFailed", "roundTrip"})
  => /\ ~bEncoded.threw
     /\ pc = "roundTrip" => bDecoded = Ok(bText)

\* C3 amended: for every string x without an unpaired surrogate base64Encode(x)
\* returns normally and base64Decode(base64Encode(x)) = x; for a string with an
\* unpaired surrogate base64Encode throws URIError.
C3_B64RoundTripWellFormed ==
  (pc \in {"encoded", "encodeFailed", "roundTrip"})
  => IF WellFormedUtf16(bText)
       THEN /\ ~bEncoded.threw
            /\ pc = "roundTrip" => bDecoded = Ok(bText)
       ELSE bEncoded = Throw("URIError")

\* The text U+0800 U+1F600 (a three-byte code point and a surrogate pair) went
\* through encode and decode and came back; its encoding is "4KCA8J+YgA==".
C3_Witness ==
  /\ pc = "roundTrip"
  /\ bText = <<2048, 55357, 56832>>
  /\ bEncoded = Ok(<<52, 75, 67, 65, 56, 74, 43, 89, 103, 65, 61, 61>>)
  /\ bDecoded = Ok(bText)


\* The well-formed UTF-8 byte sequences, by the table of the Unicode standard
\* (first byte, then the ranges of the following bytes).
Utf8Tail(first) ==
  IF first \in 0..127 THEN <<>>
  ELSE IF first \in 194..223 THEN <<128..191>>
  ELSE IF first = 224 THEN <<160..191, 128..191>>
  ELSE IF first \in 225..236 THEN <<128..191, 128..191>>
  ELSE IF first = 237 THEN <<128..159, 128..191>>
  ELSE IF first \in 238..239 THEN <<128..191, 128..191>>
  ELSE IF first = 240 THEN <<144..191, 128..191, 128..191>>
  ELSE IF first \in 241..243 THEN <<128..191, 128..191, 128..191>>
  ELSE IF first = 244 THEN <<128..143, 128..191, 128..191>>
  ELSE <<{}>>

RECURSIVE WellFormedUtf8(_)
WellFormedUtf8(bytes) ==
  IF Len(bytes) = 0 THEN TRUE
  ELSE LET tail == Utf8Tail(bytes[1])
       IN  /\ Len(bytes) >= 1 + Len(tail)
           /\ \A k \in 1..Len(tail) : bytes[1 + k] \in tail[k]
           /\ WellFormedUtf8(SubSeq(bytes, 2 + Len(tail), Len(bytes)))

\* C14: base64Decode raises the explicit error 'Invalid Base64 text', and
\* returns no text, whenever its input is rejected by base64 decoding or the
\* decoded bytes are not well-formed UTF-8.
C14_Base64DecodeRejects ==
  (pc \in {"decoded", "roundTrip"}
     /\ (atob(bInput).threw \/ ~WellFormedUtf8(atob(bInput).value)))
  => bDecoded = Throw("Invalid Base64 text")

\* "/w==" is base64 of the byte FF, which is not UTF-8: the decode raised.
C14_Witness ==
  /\ pc = "decoded"
  /\ bInput = <<47, 119, 61, 61>>
  /\ atob(bInput) = Ok(<<255>>)
  /\ bDecoded = Throw("Invalid Base64 text")

(***************************************************************************)
(* Hex and binary codecs.                                                  *)
(***************************************************************************)

\* The digit character of a digit value: 0-9, a-z.
DigitChar(d) == IF d < 10 THEN 48 + d ELSE 97 + (d - 10)

\* The value of a digit character, 36 when the character is no digit.
DigitValue(c) ==
  IF c \in 48..57 THEN c - 48
  ELSE IF IsLower(c) THEN c - 97 + 10
  ELSE IF IsUpper(c) THEN c - 65 + 10
  ELSE 36

\* Number.prototype.toString(radix) of a non-negative integer.
RECURSIVE NumberToString(_, _)
NumberToString(n, radix) ==
  IF n < radix THEN <<DigitChar(n)>>
  ELSE NumberToString(n \div radix, radix) \o <<DigitChar(n % radix)>>

\* String.prototype.padStart(targetLength, fill) with a one-character fill.
padStart(s, targetLength, fill) ==
  IF Len(s) >= targetLength THEN s
  ELSE [i \in 1..(targetLength - Len(s)) |-> fill] \o s

\* Array.prototype.join(sep) with a one-character separator.
RECURSIVE join(_, _)
join(parts, sep) ==
  IF Len(parts) = 0 THEN <<>>
  ELSE IF Len(parts) = 1 THEN parts[1]
  ELSE parts[1] \o <<sep>> \o join(Tail(parts), sep)

\* String.prototype.split(sep) with a one-character separator: the empty
\* string splits into one empty part.
RECURSIVE split(_, _)
split(s, sep) ==
  IF \A i \in 1..Len(s) : s[i] # sep THEN <<s>>
  ELSE LET k == CHOOSE i \in 1..Len(s) :
                  s[i] = sep /\ \A j \in 1..(i - 1) : s[j] # sep
       IN  <<SubSeq(s, 1, k - 1)>> \o split(SubSeq(s, k + 1, Len(s)), sep)

\* White space and line terminators, which parseInt skips and \s matches.
IsJsWhitespace(c) ==
  \/ c \in {9, 10, 11, 12, 13, 32, 160, 5760, 8232, 8233, 8239, 8287, 12288, 65279}
  \/ c \in 8192..8202

\* The value of a string of digits of the radix, read left to right.
RECURSIVE DigitsValue(_, _)
DigitsValue(d, radix) ==
  IF Len(d) = 0 THEN 0
  ELSE DigitsValue(SubSeq(d, 1, Len(d) - 1), radix) * radix + DigitValue(d[Len(d)])

\* The longest prefix of s made of digits of the radix.
RECURSIVE DigitPrefix(_, _)
DigitPrefix(s, radix) ==
  IF Len(s) = 0 \/ DigitValue(s[1]) >= radix THEN <<>>
  ELSE <<s[1]>> \o DigitPrefix(Tail(s), radix)

\* s without its leading white space.
RECURSIVE TrimStart(_)
TrimStart(s) ==
  IF Len(s) > 0 /\ IsJsWhitespace(s[1]) THEN TrimStart(Tail(s)) ELSE s

\* parseInt(s, radix) for radix 2, 10 or 16: [nan, num]; only radix 16 skips a
\* 0x prefix.
parseInt(s, radix) ==
  LET t == TrimStart(s)
      negative == Len(t) > 0 /\ t[1] = 45
      u == IF Len(t) > 0 /\ t[1] \in {43, 45} THEN Tail(t) ELSE t
      w == IF radix = 16 /\ Len(u) >= 2 /\ u[1] = 48 /\ u[2] \in {120, 88}
             THEN SubSeq(u, 3, Len(u)) ELSE u
      digits == DigitPrefix(w, radix)
  IN  IF Len(digits) = 0 THEN [nan |-> TRUE, num |-> 0]
      ELSE [nan |-> FALSE,
            num |-> IF negative THEN 0 - DigitsValue(digits, radix)
                    ELSE DigitsValue(digits, radix)]

\* String.fromCharCode of the result of parseInt: NaN becomes code unit 0.
fromParsed(p) == IF p.nan THEN 0 ELSE fromCharCode(p.num)

textToBinary(text) ==
  join([i \in 1..Len(text) |-> padStart(NumberToString(text[i], 2), 8, 48)], 32)

\* Nothing in the try block throws: the call always returns.
binaryToText(binary) ==
  LET parts == split(binary, 32)
  IN  Ok([i \in 1..Len(parts) |-> fromParsed(parseInt(parts[i], 2))])

textToHex(text) ==
  join([i \in 1..Len(text) |-> padStart(NumberToString(text[i], 16), 2, 48)], 32)

\* Nothing in the try block throws: the call always returns.
hexToText(hex) ==
  LET parts == split(hex, 32)
  IN  Ok([i \in 1..Len(parts) |-> fromParsed(parseInt(parts[i], 16))])

\* Bounds of the hex/binary inputs.
HexMaxLen == 3
HexMaxInputLen == 4

\* SPACE, '0', '~', LF, U+012C.
HexTextChars == {32, 48, 126, 10, 300}
\* '0', '1', '2', 'f', 'z', SPACE.
HexInputChars == {48, 49, 50, 102, 122, 32}

\* Every one-character printable string and every string over the boundary
\* characters up to the length bound.
HexTexts == {<<c>> : c \in 32..126} \cup SeqUpTo(HexTextChars, HexMaxLen)

\* Either a text to encode, or a text typed into the decode box.
InitHex ==
  /\ hCodec \in {"hex", "binary"}
  /\ \/ /\ pc = "plain"
        /\ hText \in HexTexts
        /\ hInput = <<>>
     \/ /\ pc = "received"
        /\ hText = <<>>
        /\ hInput \in SeqUpTo(HexInputChars, HexMaxInputLen)
  /\ hEncoded = <<>>
  /\ hDecoded = Ok(<<>>)
  /\ NotHexIdle

\* handleTextToHex.
HexEncode ==
  /\ pc = "plain" /\ hCodec = "hex"
  /\ hEncoded' = textToHex(hText)
  /\ hInput' = hEncoded'
  /\ pc' = "encoded"
  /\ UNCHANGED <<hCodec, hText, hDecoded, notHex>>

\* handleTextToBinary.
BinaryEncode ==
  /\ pc = "plain" /\ hCodec = "binary"
  /\ hEncoded' = textToBinary(hText)
  /\ hInput' = hEncoded'
  /\ pc' = "encoded"
  /\ UNCHANGED <<hCodec, hText, hDecoded, notHex>>

\* handleHexToText, on the output of the encoding or on a typed text.
HexDecode ==
  /\ pc \in {"encoded", "received"} /\ hCodec = "hex"
  /\ hDecoded' = hexToText(hInput)
  /\ pc' = IF pc = "encoded" THEN "roundTrip" ELSE "decoded"
  /\ UNCHANGED <<hCodec, hText, hInput, hEncoded, notHex>>

\* handleBinaryToText, on the output of the encoding or on a typed text.
BinaryDecode ==
  /\ pc \in {"encoded", "received"} /\ hCodec = "binary"
  /\ hDecoded' = binaryToText(hInput)
  /\ pc' = IF pc = "encoded" THEN "roundTrip" ELSE "decoded"
  /\ UNCHANGED <<hCodec, hText, hInput, hEncoded, notHex>>

NextHex == HexEncode \/ BinaryEncode \/ HexDecode \/ BinaryDecode

SpecHex == InitHex /\ [][NextHex]_vars

IsPrintableAscii(s) == \A i \in 1..Len(s) : s[i] \in 32..126

\* C4: hex and binary round trip -- for every string x of printable ASCII
\* characters, of any length, zero included, hexToText(textToHex(x)) = x and
\* binaryToText(textToBinary(x)) = x.
C4_HexBinaryRoundTrip ==
  (pc = "roundTrip" /\ IsPrintableAscii(hText)) => hDecoded = Ok(hText)


IsHexDigit(c) == c \in 48..57 \/ c \in 65..70 \/ c \in 97..102

\* Some space-separated group of the input is not exactly two hex digits.
HasBadHexGroup(hex) ==
  LET parts == split(hex, 32)
  IN  \E i \in 1..Len(parts) :
        ~(Len(parts[i]) = 2 /\ \A k \in 1..2 : IsHexDigit(parts[i][k]))

\* Some space-separated group of the input is not exactly eight characters
\* from {0, 1}.
HasBadBinaryGroup(binary) ==
  LET parts == split(binary, 32)
  IN  \E i \in 1..Len(parts) :
        ~(Len(parts[i]) = 8 /\ \A k \in 1..8 : parts[i][k] \in {48, 49})

\* C15: hexToText raises an error when any space-separated group of its input
\* is not exactly two hex digits, and binaryToText raises an error when any
\* group is not exactly eight characters from {0, 1}; neither returns text for
\* such input (the empty string and the inputs "zz" and "2" included).
C15_DecodersRejectBadGroups ==
  pc = "decoded"
  => /\ (hCodec = "hex" /\ HasBadHexGroup(hInput)) => hDecoded.threw
     /\ (hCodec = "binary" /\ HasBadBinaryGroup(hInput)) => hDecoded.threw

(***************************************************************************)
(* autoDetectCipher.                                                       *)
(***************************************************************************)

\* The length of the longest prefix of s of base64 characters: what the
\* greedy [A-Za-z0-9+/]* consumes.
RECURSIVE B64PrefixLen(_)
B64PrefixLen(s) ==
  IF Len(s) = 0 \/ ~IsB64Char(s[1]) THEN 0 ELSE 1 + B64PrefixLen(Tail(s))

\* /^[A-Za-z0-9+/]*={0,2}$/.test(text)
TestBase64(text) ==
  LET rest == SubSeq(text, B64PrefixLen(text) + 1, Len(text))
  IN  Len(rest) <= 2 /\ \A i \in 1..Len(rest) : rest[i] = 61

\* /^[01\s]+$/.test(text)
TestBinary(text) ==
  Len(text) > 0 /\ \A i \in 1..Len(text) : text[i] \in {48, 49} \/ IsJsWhitespace(text[i])

\* /^[0-9a-fA-F\s]+$/.test(text)
TestHex(text) ==
  /\ Len(text) > 0
  /\ \A i \in 1..Len(text) : DigitValue(text[i]) < 16 \/ IsJsWhitespace(text[i])

\* text.split('').reverse().join('')
reverseText(text) == [i \in 1..Len(text) |-> text[Len(text) - i + 1]]

\* text === text.split('').reverse().join('')
TestReversed(text) == text = reverseText(text)

\* /^[A-Za-z\s]+$/.test(text)
TestLetters(text) ==
  Len(text) > 0 /\ \A i \in 1..Len(text) : IsLetter(text[i]) \/ IsJsWhitespace(text[i])

\* Bug variant of autoDetectCipher: the hex test runs before the binary test.
autoDetectCipherHexFirst(text) ==
  IF TestBase64(text) THEN "Base64"
  ELSE IF TestHex(text) THEN "Hexadecimal"
  ELSE IF TestBinary(text) THEN "Binary"
  ELSE IF TestReversed(text) THEN "Reversed"
  ELSE IF TestLetters(text) THEN "Possible Caesar/ROT13"
  ELSE "Unknown/Custom Encryption"

autoDetectCipher(text) ==
  IF TestBase64(text) THEN "Base64"
  ELSE IF TestBinary(text) THEN "Binary"
  ELSE IF TestHex(text) THEN "Hexadecimal"
  ELSE IF TestReversed(text) THEN "Reversed"
  ELSE IF TestLetters(text) THEN "Possible Caesar/ROT13"
  ELSE "Unknown/Custom Encryption"

\* Bound of the detection inputs.
DetectMaxLen == 4

\* 'a', 'h', '0', '2', '+', '=', SPACE, '!', NO-BREAK SPACE.
DetectChars == {97, 104, 48, 50, 43, 61, 32, 33, 160}

\* "hello"
TextHello == <<104, 101, 108, 108, 111>>
\* "aGVsbG8="
TextHelloBase64 == <<97, 71, 86, 115, 98, 71, 56, 61>>
\* "01001000 01101001"
TextHiBinary ==
  <<48, 49, 48, 48, 49, 48, 48, 48, 32, 48, 49, 49, 48, 49, 48, 48, 49>>
\* "hello world"
TextHelloWorld == <<104, 101, 108, 108, 111, 32, 119, 111, 114, 108, 100>>

DetectTexts ==
  SeqUpTo(DetectChars, DetectMaxLen)
    \cup {TextHello, TextHelloBase64, TextHiBinary, TextHelloWorld}

InitDetect ==
  /\ pc = "start"
  /\ dText \in DetectTexts
  /\ dLabel = ""
  /\ NotDetectIdle

\* The effect on inputText: setDetectedCipher(autoDetectCipher(inputText)).
Detect ==
  /\ pc = "start"
  /\ dLabel' = autoDetectCipher(dText)
  /\ pc' = "detected"
  /\ UNCHANGED <<dText, notDetect>>

NextDetect == Detect

SpecDetect == InitDetect /\ [][NextDetect]_vars

\* C8: autoDetectCipher labels a word of ASCII letters that is no palindrome
\* (such as "hello") 'Possible Caesar/ROT13', labels "aGVsbG8=" 'Base64' and
\* labels "01001000 01101001" 'Binary'.
C8_DetectExamples ==
  pc = "detected" =>
    /\ ((\A i \in 1..Len(dText) : IsLetter(dText[i])) /\ dText # reverseText(dText))
         => dLabel = "Possible Caesar/ROT13"
    /\ dText = TextHelloBase64 => dLabel = "Base64"
    /\ dText = TextHiBinary => dLabel = "Binary"

\* The five checks in their order, and the label of each.
DetectChecks(text) ==
  <<TestBase64(text), TestBinary(text), TestHex(text), TestReversed(text),
    TestLetters(text)>>

DetectLabels ==
  <<"Base64", "Binary", "Hexadecimal", "Reversed", "Possible Caesar/ROT13">>

\* C9: the label is that of the first check the input satisfies, in the order
\* Base64, binary, hex, own reversal, letters and whitespace; it is the unknown
\* label only when the input satisfies none.
C9_DetectFirstMatch ==
  pc = "detected" =>
    LET sat == {k \in 1..5 : DetectChecks(dText)[k]}
    IN  IF sat = {} THEN dLabel = "Unknown/Custom Encryption"
        ELSE \E k \in sat : /\ \A j \in sat : k <= j
                            /\ dLabel = DetectLabels[k]

\* "0 0" satisfies the binary, the hex and the reversal check and is labelled
\* by the first of them.
C9_Witness ==
  /\ pc = "detected"
  /\ dText = <<48, 32, 48>>
  /\ ~TestBase64(dText) /\ TestBinary(dText) /\ TestHex(dText) /\ TestReversed(dText)
  /\ dLabel = "Binary"

(***************************************************************************)
(* LSB steganography.                                                      *)
(***************************************************************************)

\* The end marker '1111111111111110' as a string of '1' and '0'.
EndMarker == [i \in 1..16 |-> IF i < 16 THEN 49 ELSE 48]

\* The concatenation of a sequence of strings: join('').
RECURSIVE Concat(_)
Concat(parts) == IF Len(parts) = 0 THEN <<>> ELSE parts[1] \o Concat(Tail(parts))

\* binaryText of hideTextInImage: 8 binary digits per character, then the marker.
PayloadBits(text) ==
  Concat([i \in 1..Len(text) |-> padStart(NumberToString(text[i], 2), 8, 48)])
    \o EndMarker

\* Bug variant of hideTextInImage: the bit is written without clearing the
\* old least-significant bit first.
hideTextInImageNoClear(data, text) ==
  LET binaryText == PayloadBits(text)
  IN  Ok([i \in 1..Len(data) |->
            IF (i - 1) % 4 = 0 /\ (i - 1) \div 4 < Len(binaryText)
              THEN LET bit == parseInt(<<binaryText[(i - 1) \div 4 + 1]>>, 10).num
                   IN  IF data[i] % 2 = 1 THEN data[i] ELSE data[i] + bit
              ELSE data[i]])

\* Bug variant of hideTextInImage: the loop advances by one byte, not by four.
hideTextInImageEveryByte(data, text) ==
  LET binaryText == PayloadBits(text)
  IN  Ok([i \in 1..Len(data) |->
            IF i - 1 < Len(binaryText)
              THEN (data[i] - (data[i] % 2))
                   + parseInt(<<binaryText[i]>>, 10).num
              ELSE data[i]])

\* hideTextInImage works on a copy of the bytes: the loop visits the red byte
\* of pixel k (index 4k, here 4k+1) while k < binaryText.length and sets it to
\* (data[i] & 0xFE) | parseInt(bit) (the digit is '0' or '1').  No path of the
\* function throws.
hideTextInImage(data, text) ==
  LET binaryText == PayloadBits(text)
  IN  Ok([i \in 1..Len(data) |->
            IF (i - 1) % 4 = 0 /\ (i - 1) \div 4 < Len(binaryText)
              THEN (data[i] - (data[i] % 2))
                   + parseInt(<<binaryText[(i - 1) \div 4 + 1]>>, 10).num
              ELSE data[i]])

\* The bytes of the argument imageData.data when hideTextInImage has returned:
\* new Uint8ClampedArray(typedArray) copies, and the loop writes to the copy.
InputAfterHide(data, text) == data

\* The first loop of extractTextFromImage: (data[i] & 1).toString() of every
\* red byte.
RedLsbString(data) ==
  [k \in 1..((Len(data) + 3) \div 4) |-> 48 + (data[4 * (k - 1) + 1] % 2)]

\* pat occurs in s at position k (counted from 0).
OccursAt(s, pat, k) ==
  k + Len(pat) <= Len(s) /\ \A j \in 1..Len(pat) : s[k + j] = pat[j]

\* String.prototype.indexOf searching from position k: -1 when not found.
RECURSIVE IndexOfFrom(_, _, _)
IndexOfFrom(s, pat, k) ==
  IF k + Len(pat) > Len(s) THEN 0 - 1
  ELSE IF OccursAt(s, pat, k) THEN k
  ELSE IndexOfFrom(s, pat, k + 1)

\* The second loop of extractTextFromImage: complete groups of 8 digits.
RECURSIVE DecodeBytes(_)
DecodeBytes(bits) ==
  IF Len(bits) < 8 THEN <<>>
  ELSE <<fromParsed(parseInt(SubSeq(bits, 1, 8), 2))>>
       \o DecodeBytes(SubSeq(bits, 9, Len(bits)))

\* Bug variant of extractTextFromImage: a missing marker yields the empty text.
extractTextFromImageNoThrow(data) ==
  LET binaryText == RedLsbString(data)
      endIndex == IndexOfFrom(binaryText, EndMarker, 0)
  IN  IF endIndex = 0 - 1 THEN Ok(<<>>)
      ELSE Ok(DecodeBytes(SubSeq(binaryText, 1, endIndex)))

extractTextFromImage(data) ==
  LET binaryText == RedLsbString(data)
      endIndex == IndexOfFrom(binaryText, EndMarker, 0)
  IN  IF endIndex = 0 - 1 THEN Throw("No hidden text found in image")
      ELSE Ok(DecodeBytes(SubSeq(binaryText, 1, endIndex)))

\* Bounds of the steganography inputs.
StegoMaxLen == 2
MaxPixels == 34

\* DEL (the largest 7-bit character), 0xFE, 0xFF.
StegoChars == {127, 254, 255}

\* Every string over the boundary characters up to the length bound, "A" and
\* "Hi".
StegoTexts == SeqUpTo(StegoChars, StegoMaxLen) \cup {<<65>>, <<72, 105>>}

\* The pixels a fresh canvas is filled with: red byte even, red byte odd.
InitPixels == {<<254, 1, 128, 255>>, <<255, 0, 127, 254>>}

\* An image of n pixels, all equal to px.
FilledImage(n, px) == [i \in 1..(4 * n) |-> px[((i - 1) % 4) + 1]]

NumPixels(data) == Len(data) \div 4

\* ctx.drawImage: the canvas holds the pixels of the loaded file.
InitStego ==
  /\ pc = "loaded"
  /\ \E n \in 1..MaxPixels, px \in InitPixels : imageData = FilledImage(n, px)
  /\ sText = <<>>
  /\ sBefore = <<>>
  /\ sHidden = Ok(<<>>)
  /\ sInputAfter = <<>>
  /\ sExtracted = Ok(<<>>)
  /\ NotStegoIdle

\* createHiddenImageCanvas on a fresh image, or on an image that already
\* carries a text: getImageData, hideTextInImage, putImageData.
HideText(text) ==
  /\ pc \in {"loaded", "hidden"}
  /\ sBefore' = imageData
  /\ sText' = text
  /\ sHidden' = hideTextInImage(imageData, text)
  /\ sInputAfter' = InputAfterHide(imageData, text)
  /\ imageData' = sHidden'.value
  /\ pc' = IF pc = "loaded" THEN "hidden" ELSE "rehidden"
  /\ UNCHANGED <<sExtracted, notStego>>

\* extractFromImageFile: getImageData, extractTextFromImage.
ExtractText ==
  /\ pc \in {"loaded", "hidden", "rehidden"}
  /\ sExtracted' = extractTextFromImage(imageData)
  /\ pc' = IF pc = "loaded" THEN "extractedFresh" ELSE "extracted"
  /\ UNCHANGED <<imageData, sText, sBefore, sHidden, sInputAfter, notStego>>

NextStego == (\E text \in StegoTexts : HideText(text)) \/ ExtractText

SpecStego == InitStego /\ [][NextStego]_vars

\* The number of pixels the text and the marker need.
NeededPixels(text) == 8 * Len(text) + 16

\* C5: steganography round trip -- for every text t of 7-bit ASCII characters
\* and every pixel buffer with at least 8*len(t)+16 pixels, whatever it held
\* before, extractTextFromImage(hideTextInImage(buffer, t)) returns exactly t.
C5_StegoRoundTrip ==
  (pc = "extracted" /\ IsAscii(sText) /\ NumPixels(sBefore) >= NeededPixels(sText))
  => sExtracted = Ok(sText)

\* "Hi" was hidden in an image that carried the longer-lived marker of an
\* earlier text, and extracted again.
C5_Witness ==
  /\ pc = "extracted"
  /\ sText = <<72, 105>>
  /\ NumPixels(sBefore) >= NeededPixels(sText)
  /\ sBefore # FilledImage(NumPixels(sBefore), <<254, 1, 128, 255>>)
  /\ sBefore # FilledImage(NumPixels(sBefore), <<255, 0, 127, 254>>)
  /\ sExtracted = Ok(sText)

\* C6: hideTextInImage on a pixel buffer with fewer than 8*len(text)+16 pixels
\* raises a capacity error instead of returning a buffer with a truncated
\* payload.
C6_CapacityError ==
  (pc \in {"hidden", "rehidden"} /\ NumPixels(sBefore) < NeededPixels(sText))
  => sHidden.threw

\* The marker occurs somewhere in the red least-significant bits.
ContainsMarker(data) ==
  \E k \in 0..NumPixels(data) :
    /\ k + 16 <= NumPixels(data)
    /\ \A j \in 1..15 : data[4 * (k + j - 1) + 1] % 2 = 1
    /\ data[4 * (k + 15) + 1] % 2 = 0

\* C7: extractTextFromImage raises an error and returns no text for every
\* buffer whose red least-significant bits do not contain 1111111111111110.
C7_ExtractNoMarkerThrows ==
  (pc \in {"extracted", "extractedFresh"} /\ ~ContainsMarker(imageData))
  => sExtracted = Throw("No hidden text found in image")

\* Extraction failed on an image in which a hide was cut short by the buffer.
C7_Witness ==
  /\ pc = "extracted"
  /\ NumPixels(sBefore) < NeededPixels(sText)
  /\ ~ContainsMarker(imageData)
  /\ sExtracted.threw

(***************************************************************************)
(* generateMD5Hash.  The hash is a signed 32-bit integer; the arithmetic   *)
(* on it is done on its two 16-bit halves so that no intermediate value    *)
(* leaves the range of a 32-bit integer.                                   *)
(***************************************************************************)

\* The halves of the two's complement representation of a 32-bit integer.
HiHalf(n) == (n \div 65536) % 65536
LoHalf(n) == n % 65536

\* ToInt32 of the number hi * 2^16 + lo, where lo is in 0..65535: the signed
\* integer with that representation modulo 2^32.
Int32(hi, lo) ==
  IF hi % 65536 >= 32768
    THEN ((hi % 65536) - 65536) * 65536 + lo
    ELSE (hi % 65536) * 65536 + lo

\* hash << 5.
ShiftLeft5(hash) ==
  LET lo == LoHalf(hash) * 32
  IN  Int32(HiHalf(hash) * 32 + (lo \div 65536), lo % 65536)

\* ((shifted - hash) + char) & itself: the exact sum, then ToInt32.
SubAddInt32(shifted, hash, char) ==
  LET lo == LoHalf(shifted) - LoHalf(hash) + char
  IN  Int32(HiHalf(shifted) - HiHalf(hash) + (lo \div 65536), lo % 65536)

\* The body of the loop of generateMD5Hash for one character.
HashStep(hash, char) == SubAddInt32(ShiftLeft5(hash), hash, char)

\* The value of hash after the first n characters of text.
RECURSIVE HashLoop(_, _)
HashLoop(text, n) ==
  IF n = 0 THEN 0 ELSE HashStep(HashLoop(text, n - 1), text[n])

\* The halves of Math.abs(hash); the absolute value of -2^31 is 2^31.
AbsHi(hash) ==
  IF hash >= 0 THEN HiHalf(hash)
  ELSE 65536 - HiHalf(hash) - (IF LoHalf(hash) = 0 THEN 0 ELSE 1)
AbsLo(hash) ==
  IF hash >= 0 THEN LoHalf(hash) ELSE (65536 - LoHalf(hash)) % 65536

\* Math.abs(hash).toString(16).
AbsToString16(hash) ==
  IF AbsHi(hash) = 0 THEN NumberToString(AbsLo(hash), 16)
  ELSE NumberToString(AbsHi(hash), 16)
         \o padStart(NumberToString(AbsLo(hash), 16), 4, 48)

\* Bug variant of generateMD5Hash: the result is not padded.
generateMD5HashNoPad(text) == AbsToString16(HashLoop(text, Len(text)))

generateMD5Hash(text) ==
  padStart(AbsToString16(HashLoop(text, Len(text))), 8, 48)

\* Bounds of the hash inputs.
HashMaxLen == 7

\* 'a', 'z', U+FFFF.
HashChars == {97, 122, 65535}
HashTexts == SeqUpTo(HashChars, HashMaxLen) \cup {TextHello}

InitHash ==
  /\ pc = "plain"
  /\ gText \in HashTexts
  /\ gHash = <<>>
  /\ NotHashIdle

\* handleHash: the call of generateMD5Hash.
Hash ==
  /\ pc = "plain"
  /\ gHash' = generateMD5Hash(gText)
  /\ pc' = "hashed"
  /\ UNCHANGED <<gText, notHash>>

NextHash == Hash

SpecHash == InitHash /\ [][NextHash]_vars

\* (h * 31 + c) wrapped to a signed 32-bit integer, by long multiplication on
\* the halves of h.
Times31Plus(h, c) ==
  LET lo == LoHalf(h) * 31 + c
      hi == HiHalf(h) * 31 + (lo \div 65536)
      u == hi % 65536
  IN  IF u >= 32768 THEN (u - 65536) * 65536 + (lo % 65536)
      ELSE u * 65536 + (lo % 65536)

\* h after the first n characters, starting from 0.
RECURSIVE PolynomialHash(_, _)
PolynomialHash(text, n) ==
  IF n = 0 THEN 0 ELSE Times31Plus(PolynomialHash(text, n - 1), text[n])

IsLowerHexDigit(c) == c \in 48..57 \/ c \in 97..102
LowerHexValue(c) == IF c \in 48..57 THEN c - 48 ELSE c - 87

\* The value of four lowercase hex digits.
FourHexValue(d) ==
  LowerHexValue(d[1]) * 4096 + LowerHexValue(d[2]) * 256
    + LowerHexValue(d[3]) * 16 + LowerHexValue(d[4])

\* C16: generateMD5Hash(text) is a function of text alone -- with h starting at
\* 0 and updated per character as h := (h * 31 + charCode) wrapped to a signed
\* 32-bit integer, the result is the lowercase hexadecimal rendering of the
\* absolute value of the final h, left-padded with zeros to 8 digits, so the
\* result always has exactly 8 hex digits.
C16_HashIsPadded31Polynomial ==
  pc = "hashed"
  => LET h == PolynomialHash(gText, Len(gText))
         isMin == h < 0 - 2147483647      \* h = -2^31, whose absolute value is 2^31
         a == IF isMin THEN 0 ELSE IF h < 0 THEN 0 - h ELSE h
     IN  /\ Len(gHash) = 8
         /\ \A i \in 1..8 : IsLowerHexDigit(gHash[i])
         /\ FourHexValue(SubSeq(gHash, 1, 4)) = (IF isMin THEN 32768 ELSE a \div 65536)
         /\ FourHexValue(SubSeq(gHash, 5, 8)) = a % 65536

\* "aaaaaaa" overflows to the negative hash -1236860927, rendered "49b8ffff".
C16_Witness ==
  /\ pc = "hashed"
  /\ gText = <<97, 97, 97, 97, 97, 97, 97>>
  /\ PolynomialHash(gText, 7) = 0 - 1236860927
  /\ gHash = <<52, 57, 98, 56, 102, 102, 102, 102>>

(***************************************************************************)
(* calculateStrength.                                                      *)
(***************************************************************************)

\* RegExp.prototype.test for the four character classes of the function.
TestUpper(text) == \E i \in 1..Len(text) : IsUpper(text[i])
TestLower(text) == \E i \in 1..Len(text) : IsLower(text[i])
TestDigit(text) == \E i \in 1..Len(text) : text[i] \in 48..57
TestOther(text) ==
  \E i \in 1..Len(text) :
    ~(IsUpper(text[i]) \/ IsLower(text[i]) \/ text[i] \in 48..57)

\* The score after the six additions.
StrengthScore(text) ==
  (IF Len(text) > 50 THEN 20 ELSE 0)
  + (IF Len(text) > 100 THEN 20 ELSE 0)
  + (IF TestUpper(text) THEN 15 ELSE 0)
  + (IF TestLower(text) THEN 15 ELSE 0)
  + (IF TestDigit(text) THEN 15 ELSE 0)
  + (IF TestOther(text) THEN 15 ELSE 0)

\* Bug variant of calculateStrength: the thresholds are compared with >.
calculateStrengthStrict(text) ==
  LET score == StrengthScore(text)
  IN  IF score > 80 THEN [score |-> score, label |-> "Very Strong", color |-> "green"]
      ELSE IF score > 60 THEN [score |-> score, label |-> "Strong", color |-> "blue"]
      ELSE IF score > 40 THEN [score |-> score, label |-> "Medium", color |-> "yellow"]
      ELSE IF score > 20 THEN [score |-> score, label |-> "Weak", color |-> "orange"]
      ELSE [score |-> score, label |-> "Very Weak", color |-> "red"]

calculateStrength(text) ==
  LET score == StrengthScore(text)
  IN  IF score >= 80 THEN [score |-> score, label |-> "Very Strong", color |-> "green"]
      ELSE IF score >= 60 THEN [score |-> score, label |-> "Strong", color |-> "blue"]
      ELSE IF score >= 40 THEN [score |-> score, label |-> "Medium", color |-> "yellow"]
      ELSE IF score >= 20 THEN [score |-> score, label |-> "Weak", color |-> "orange"]
      ELSE [score |-> score, label |-> "Very Weak", color |-> "red"]

\* Bounds of the strength inputs: a text is a unit of at most
\* StrengthMaxUnitLen characters, repeated up to a length of at most
\* StrengthMaxLen.
StrengthMaxUnitLen == 4
StrengthMaxLen == 101

\* 'A', 'a', '0', '!'.
StrengthChars == {65, 97, 48, 33}
\* The lengths around the two length thresholds, and the short ones.
StrengthLengths == {0, 1, 2, 3, 4, 50, 51, 100, StrengthMaxLen}

\* The first n characters of unit unit unit ...
Repeat(unit, n) == [i \in 1..n |-> unit[((i - 1) % Len(unit)) + 1]]

StrengthTexts ==
  {Repeat(unit, n) :
     unit \in SeqUpTo(StrengthChars, StrengthMaxUnitLen) \ {<<>>},
     n \in StrengthLengths}

InitStrength ==
  /\ pc = "plain"
  /\ tText \in StrengthTexts
  /\ tStrength = [score |-> 0, label |-> "", color |-> ""]
  /\ NotStrengthIdle

\* The strength shown for the input text: the call of calculateStrength.
Strength ==
  /\ pc = "plain"
  /\ tStrength' = calculateStrength(tText)
  /\ pc' = "scored"
  /\ UNCHANGED <<tText, notStrength>>

NextStrength == Strength

SpecStrength == InitStrength /\ [][NextStrength]_vars

\* The label that belongs to a score.
LabelOfScore(score) ==
  IF score < 20 THEN "Very Weak"
  ELSE IF score <= 39 THEN "Weak"
  ELSE IF score <= 59 THEN "Medium"
  ELSE IF score <= 79 THEN "Strong"
  ELSE "Very Strong"

\* C17: calculateStrength returns a score in 0..100 and a label fixed by the
\* score -- 'Very Weak' below 20, 'Weak' for 20..39, 'Medium' for 40..59,
\* 'Strong' for 60..79, 'Very Strong' for 80 and above.
C17_StrengthScoreAndLabel ==
  pc = "scored"
  => /\ tStrength.score \in 0..100
     /\ tStrength.label = LabelOfScore(tStrength.score)

\* "Aa0!" has all four classes and no length bonus: score 60, 'Strong'.
C17_Witness ==
  /\ pc = "scored"
  /\ tText = <<65, 97, 48, 33>>
  /\ tStrength.score = 60
  /\ tStrength.label = "Strong"

(***************************************************************************)
(* The bytes hideTextInImage writes and the bytes it leaves alone.         *)
(***************************************************************************)

\* Bit k (from 0) of the payload: the 8-bit codes of the text, most
\* significant bit first, then fifteen ones and a zero.
PayloadBitAt(text, k) ==
  IF k < 8 * Len(text)
    THEN (text[(k \div 8) + 1] \div 2^(7 - (k % 8))) % 2
    ELSE IF k < 8 * Len(text) + 15 THEN 1 ELSE 0

Min(a, b) == IF a <= b THEN a ELSE b

IsByteText(text) == \A i \in 1..Len(text) : text[i] \in 0..255

\* C21: for every text t whose character codes are all in 0..255 (not only
\* 7-bit ASCII) and every pixel buffer with at least 8*len(t)+16 pixels,
\* extractTextFromImage(hideTextInImage(buffer, t)) returns exactly t -- the
\* first occurrence of the end-marker pattern in the extracted bit string is
\* always the appended marker, never bits of the payload itself.
C21_StegoRoundTripBytes ==
  (pc = "extracted" /\ IsByteText(sText)
     /\ NumPixels(sBefore) >= NeededPixels(sText))
  => sExtracted = Ok(sText)

\* C22: for every 7-bit ASCII text t and every pixel buffer with
\* P < 8*len(t)+16 pixels, hideTextInImage returns normally after writing only
\* the first P bits of payload-plus-marker, and extractTextFromImage on the
\* returned buffer raises the no-hidden-text error; it never returns a wrong
\* or shortened text.
C22_TruncatedHideThenExtractThrows ==
  (pc \in {"hidden", "rehidden", "extracted"} /\ IsAscii(sText)
     /\ NumPixels(sBefore) < NeededPixels(sText))
  => /\ ~sHidden.threw
     /\ Len(sHidden.value) = Len(sBefore)
     /\ \A k \in 0..(NumPixels(sBefore) - 1) :
          sHidden.value[4 * k + 1] % 2 = PayloadBitAt(sText, k)
     /\ pc = "extracted"
          => sExtracted = Throw("No hidden text found in image")

\* "Hi" needs 32 pixels; it was hidden in an image of 20 and the extraction
\* raised the error.
C22_Witness ==
  /\ pc = "extracted"
  /\ sText = <<72, 105>>
  /\ NumPixels(sBefore) = 20
  /\ imageData = sHidden.value
  /\ sExtracted = Throw("No hidden text found in image")

(***************************************************************************)
(* createHiddenImageCanvas and extractFromImageFile: the promise, the      *)
(* image element and its two handlers.  The browser dispatches one event   *)
(* for the one assignment of img.src: load when the file decodes as an     *)
(* image, error when it does not.                                          *)
(***************************************************************************)

\* A call of resolve(v), and a call of reject(new Error(e)).
Resolve(v) == [kind |-> "resolve", value |-> v, error |-> ""]
Reject(e) == [kind |-> "reject", value |-> <<>>, error |-> e]

\* The promise after the calls, in order: the first call settles it, the later
\* ones have no effect.
RECURSIVE Settle(_, _)
Settle(promise, calls) ==
  IF Len(calls) = 0 THEN promise
  ELSE IF promise.state # "pending" THEN promise
  ELSE Settle(IF calls[1].kind = "resolve"
                THEN [state |-> "fulfilled", value |-> calls[1].value, error |-> ""]
                ELSE [state |-> "rejected", value |-> <<>>, error |-> calls[1].error],
              Tail(calls))

\* ctx.getImageData(0, 0, canvas.width, canvas.height) after drawImage(img, 0, 0)
\* on a canvas of the size of the image: the bytes of the image; a canvas
\* without pixels makes the call throw IndexSizeError.
getImageData(file) ==
  IF Len(file) = 0 THEN Throw("IndexSizeError") ELSE Ok(file)

\* The calls of resolve and reject made by img.onload of
\* createHiddenImageCanvas.  The resolved data URL is represented by the
\* bytes of the canvas it encodes.
onloadHide(ctx, file, text) ==
  IF ~ctx THEN <<Reject("Canvas context not available")>>
  ELSE LET imageData0 == getImageData(file)
       IN  IF imageData0.threw THEN <<Reject(imageData0.error)>>
           ELSE LET hiddenImageData == hideTextInImage(imageData0.value, text)
                IN  IF hiddenImageData.threw
                      THEN <<Reject(hiddenImageData.error)>>
                      ELSE <<Resolve(hiddenImageData.value)>>

\* Bug variant of onloadExtract: no try/catch, an exception leaves the handler
\* without a call of reject.
onloadExtractNoCatch(ctx, file) ==
  IF ~ctx THEN <<Reject("Canvas context not available")>>
  ELSE LET imageData0 == getImageData(file)
       IN  IF imageData0.threw THEN <<>>
           ELSE LET hiddenText == extractTextFromImage(imageData0.value)
                IN  IF hiddenText.threw THEN <<>>
                    ELSE <<Resolve(hiddenText.value)>>

\* The calls of resolve and reject made by img.onload of extractFromImageFile.
onloadExtract(ctx, file) ==
  IF ~ctx THEN <<Reject("Canvas context not available")>>
  ELSE LET imageData0 == getImageData(file)
       IN  IF imageData0.threw THEN <<Reject(imageData0.error)>>
           ELSE LET hiddenText == extractTextFromImage(imageData0.value)
                IN  IF hiddenText.threw THEN <<Reject(hiddenText.error)>>
                    ELSE <<Resolve(hiddenText.value)>>

\* The call of reject made by img.onerror of either function.
onerror == <<Reject("Failed to load image")>>

\* "", "A", "Hi".
PromiseTexts == {<<>>, <<65>>, <<72, 105>>}

\* The images a file may decode to: without pixels, too small for a marker,
\* without a hidden text, and with one.
PromiseFiles ==
  {FilledImage(n, px) : n \in {0, 1, 16, MaxPixels}, px \in InitPixels}
  \cup {hideTextInImage(FilledImage(MaxPixels, px), text).value :
          px \in InitPixels, text \in PromiseTexts}

\* Before the call: the file, whether it decodes, and whether the browser
\* hands out a 2D context.
InitPromise ==
  /\ pc = "idle"
  /\ pFn = "hide"
  /\ pFile \in PromiseFiles
  /\ pReadable \in BOOLEAN
  /\ pCtx \in BOOLEAN
  /\ pText = <<>>
  /\ pLoads = 0
  /\ pEvent = "none"
  /\ pCalls = <<>>
  /\ pPromise = Pending
  /\ NotPromiseIdle

\* The executor of createHiddenImageCanvas(file, text): handlers installed,
\* img.src assigned, the pending promise returned.
createHiddenImageCanvas(text) ==
  /\ pc = "idle"
  /\ pFn' = "hide"
  /\ pText' = text
  /\ pLoads' = pLoads + 1
  /\ pPromise' = Pending
  /\ pc' = "loading"
  /\ UNCHANGED <<pFile, pReadable, pCtx, pEvent, pCalls, notPromise>>

\* The executor of extractFromImageFile(file).
extractFromImageFile ==
  /\ pc = "idle"
  /\ pFn' = "extract"
  /\ pLoads' = pLoads + 1
  /\ pPromise' = Pending
  /\ pc' = "loading"
  /\ UNCHANGED <<pFile, pReadable, pCtx, pText, pEvent, pCalls, notPromise>>

\* The load event: img.onload runs to its end.
ImgLoad ==
  /\ pc = "loading" /\ pReadable
  /\ pEvent' = "load"
  /\ pCalls' = pCalls \o (IF pFn = "hide" THEN onloadHide(pCtx, pFile, pText)
                                         ELSE onloadExtract(pCtx, pFile))
  /\ pPromise' = Settle(pPromise, pCalls')
  /\ pc' = "handled"
  /\ UNCHANGED <<pFn, pFile, pReadable, pCtx, pText, pLoads, notPromise>>

\* The error event: img.onerror runs.
ImgError ==
  /\ pc = "loading" /\ ~pReadable
  /\ pEvent' = "error"
  /\ pCalls' = pCalls \o onerror
  /\ pPromise' = Settle(pPromise, pCalls')
  /\ pc' = "handled"
  /\ UNCHANGED <<pFn, pFile, pReadable, pCtx, pText, pLoads, notPromise>>

NextPromise ==
  \/ \E text \in PromiseTexts : createHiddenImageCanvas(text)
  \/ extractFromImageFile
  \/ ImgLoad
  \/ ImgError

SpecPromise == InitPromise /\ [][NextPromise]_vars

\* Reading the pixels or transforming them throws: the canvas has no pixels,
\* or the extraction finds no marker.
TransformThrows ==
  \/ Len(pFile) = 0
  \/ pFn = "extract" /\ ~ContainsMarker(pFile)

\* C19: the promise returned by createHiddenImageCanvas and by
\* extractFromImageFile settles exactly once and the image load is never
\* retried -- it is rejected when the image fails to load, when no 2D context
\* is available, or when reading or transforming the pixels throws (the
\* no-hidden-text error included), and it is resolved only after the image
\* has loaded and the transform returned.  (Until the image has dispatched
\* its event the promise is pending.)
C19_PromiseSettlesOnce ==
  /\ pLoads = (IF pc = "idle" THEN 0 ELSE 1)
  /\ pEvent = "none" => (pPromise = Pending /\ pCalls = <<>>)
  /\ pEvent # "none" => (Len(pCalls) = 1 /\ pPromise.state \in {"fulfilled", "rejected"})
  /\ pEvent = "error"
       => (pPromise.state = "rejected" /\ pPromise.error = "Failed to load image")
  /\ (pEvent = "load" /\ ~pCtx)
       => (pPromise.state = "rejected"
             /\ pPromise.error = "Canvas context not available")
  /\ (pEvent = "load" /\ pCtx /\ TransformThrows) => pPromise.state = "rejected"
  /\ (pEvent = "load" /\ pCtx /\ pFn = "extract" /\ Len(pFile) > 0
         /\ ~ContainsMarker(pFile))
       => pPromise.error = "No hidden text found in image"
  /\ pPromise.state = "fulfilled"
       => (pEvent = "load" /\ pCtx /\ ~TransformThrows)

\* extractFromImageFile on an image of 34 pixels without a hidden text: the
\* image loaded, the extraction threw, and the promise was rejected by the one
\* call of reject.
C19_Witness ==
  /\ pc = "handled"
  /\ pFn = "extract"
  /\ pEvent = "load"
  /\ pCtx
  /\ NumPixels(pFile) = MaxPixels
  /\ ~ContainsMarker(pFile)
  /\ Len(pCalls) = 1
  /\ pPromise = [state |-> "rejected", value |-> <<>>,
                  error |-> "No hidden text found in image"]

(***************************************************************************)
(* mockAuth (src/unnamed/part_004): the user store and the session store   *)
(* in localStorage, the listener slot window.__authCallback, and the       *)
(* timers of the event loop.  A user is modelled by its id and email; a    *)
(* record of strings survives JSON.stringify and JSON.parse unchanged.     *)
(*                                                                         *)
(* Timers: a pending timer may fire when no timer scheduled before it has  *)
(* a delay that is at most its own (such a timer expires no later and is   *)
(* run first).                                                             *)
(***************************************************************************)

defaultUsers ==
  <<[id |-> "1", email |-> "demo@example.com"],
    [id |-> "2", email |-> "test@example.com"]>>

\* initializeUsers: the defaults are written when the key is absent.
initializeUsers(store) ==
  IF ~store.present THEN [present |-> TRUE, list |-> defaultUsers] ELSE store

\* getUsers returns the list stored after initializeUsers.
getUsers(store) == initializeUsers(store).list

saveUsers(users) == [present |-> TRUE, list |-> users]

\* users.find(u => u.email === email): the index of the first match, 0 when
\* there is none.
FindUser(users, email) ==
  IF \E i \in 1..Len(users) : users[i].email = email
    THEN CHOOSE i \in 1..Len(users) :
           /\ users[i].email = email
           /\ \A j \in 1..(i - 1) : users[j].email # email
    ELSE 0

\* The session object built for a user.
SessionOf(user) == [user |-> user, access_token |-> <<"mock_token_", user.id>>]

\* getSession().
getSession(session) == session

\* Bug variant of signUp: the check for an existing user is missing.
signUpNoCheck(store, session, email, password, id) ==
  LET users == getUsers(store)
      newUser == [id |-> id, email |-> email]
  IN  [users |-> saveUsers(Append(users, newUser)),
       session |-> SessionOf(newUser),
       wrote |-> TRUE, error |-> "", user |-> newUser]

\* signUp after its delay, lines 66-100, run without suspension: the stores
\* after the call, whether the session store was written (and a callback
\* timer scheduled), and the result.  id is the value of generateId().
signUp(store, session, email, password, id) ==
  LET users == getUsers(store)
      newUser == [id |-> id, email |-> email]
  IN  IF FindUser(users, email) # 0
        THEN [users |-> initializeUsers(store), session |-> session,
              wrote |-> FALSE, error |-> "User already exists",
              user |-> NullSession.user]
        ELSE [users |-> saveUsers(Append(users, newUser)),
              session |-> SessionOf(newUser),
              wrote |-> TRUE, error |-> "", user |-> newUser]

\* Bug variant of signIn: the password is compared with a fixed one.
signInChecksPassword(store, session, email, password) ==
  LET users == getUsers(store)
      i == FindUser(users, email)
  IN  IF i = 0 \/ password # "pw1"
        THEN [users |-> initializeUsers(store), session |-> session,
              wrote |-> FALSE, error |-> "Invalid login credentials",
              user |-> NullSession.user]
        ELSE [users |-> initializeUsers(store), session |-> SessionOf(users[i]),
              wrote |-> TRUE, error |-> "", user |-> users[i]]

\* signIn after its delay, lines 108-130.  The password is not read.
signIn(store, session, email, password) ==
  LET users == getUsers(store)
      i == FindUser(users, email)
  IN  IF i = 0
        THEN [users |-> initializeUsers(store), session |-> session,
              wrote |-> FALSE, error |-> "Invalid login credentials",
              user |-> NullSession.user]
        ELSE [users |-> initializeUsers(store), session |-> SessionOf(users[i]),
              wrote |-> TRUE, error |-> "", user |-> users[i]]

\* The three kinds of timers.
Sleep(fn, email, password) ==
  [kind |-> "sleep", delay |-> 500, fn |-> fn, email |-> email,
   password |-> password, event |-> "", session |-> NullSession,
   listener |-> 0, write |-> 0]
Notify(event, session, write) ==
  [kind |-> "notify", delay |-> 100, fn |-> "", email |-> "",
   password |-> "", event |-> event, session |-> session,
   listener |-> 0, write |-> write]
Initial(listener, session) ==
  [kind |-> "initial", delay |-> 0, fn |-> "", email |-> "",
   password |-> "", event |-> "INITIAL_SESSION", session |-> session,
   listener |-> listener, write |-> 0]

\* The timer at position i may fire now.
CanFire(i) ==
  /\ i \in 1..Len(aTimers)
  /\ \A j \in 1..(i - 1) : aTimers[j].delay > aTimers[i].delay

RemoveAt(seq, i) == SubSeq(seq, 1, i - 1) \o SubSeq(seq, i + 1, Len(seq))

\* One invocation of a listener with (event, session); write is the number of
\* the write of the session store the event reports, 0 for INITIAL_SESSION.
\* aDelivered.write keeps the greatest number delivered so far.
Invoke(listener, event, session, write) ==
  /\ aDelivered' = [listener |-> listener, event |-> event, session |-> session,
                    write |-> IF write > aDelivered.write
                                THEN write ELSE aDelivered.write]
  /\ aAfterUnsubscribe' = (aAfterUnsubscribe \/ listener \in aUnsubscribed)
  /\ aOutOfOrder' = (aOutOfOrder \/ (write # 0 /\ write < aDelivered.write))

\* Bounds of the auth runs.
MaxAuthCalls == 2
MaxListeners == 1

AuthEmails == {"demo@example.com", "new@example.com"}
AuthPasswords == {"pw1", "pw2"}
\* The values generateId() may return.
NewIds == {"n1", "n2"}

\* The page has just loaded: the stores hold what an earlier visit left.
InitAuth ==
  /\ pc = "auth"
  /\ \/ aUsers = NoUsers /\ aSession = NullSession
     \/ /\ aUsers = saveUsers(defaultUsers)
        /\ aSession \in {NullSession, SessionOf(defaultUsers[1])}
  /\ aCallback = 0
  /\ aTimers = <<>>
  /\ aListeners = 0
  /\ aUnsubscribed = {}
  /\ aRemovedOther = FALSE
  /\ aDelivered = NoDelivery
  /\ aAfterUnsubscribe = FALSE
  /\ aOutOfOrder = FALSE
  /\ aCallCount = 0
  /\ aWrites = 0
  /\ aSignedOut = FALSE
  /\ aLast = NoCall
  /\ NotAuthIdle

\* mockAuth.signUp(email, password) up to its await: the 500 ms timer.
CallSignUp(email, password) ==
  /\ aCallCount < MaxAuthCalls
  /\ aCallCount' = aCallCount + 1
  /\ aTimers' = Append(aTimers, Sleep("signUp", email, password))
  /\ aSignedOut' = FALSE
  /\ UNCHANGED <<pc, aUsers, aSession, aCallback, aListeners, aUnsubscribed,
                 aRemovedOther, aDelivered, aAfterUnsubscribe, aOutOfOrder, aWrites, aLast, notAuth>>

\* mockAuth.signIn(email, password) up to its await.
CallSignIn(email, password) ==
  /\ aCallCount < MaxAuthCalls
  /\ aCallCount' = aCallCount + 1
  /\ aTimers' = Append(aTimers, Sleep("signIn", email, password))
  /\ aSignedOut' = FALSE
  /\ UNCHANGED <<pc, aUsers, aSession, aCallback, aListeners, aUnsubscribed,
                 aRemovedOther, aDelivered, aAfterUnsubscribe, aOutOfOrder, aWrites, aLast, notAuth>>

\* The stores, the timers and the record of the call after a signUp or
\* signIn has run from its await to its return with outcome r.
Resumed(i, r) ==
  /\ aUsers' = r.users
  /\ aSession' = r.session
  /\ aWrites' = IF r.wrote THEN aWrites + 1 ELSE aWrites
  /\ aTimers' = IF r.wrote
                  THEN Append(RemoveAt(aTimers, i),
                              Notify("SIGNED_IN", r.session, aWrites + 1))
                  ELSE RemoveAt(aTimers, i)
  /\ aLast' = [fn |-> aTimers[i].fn, email |-> aTimers[i].email,
               password |-> aTimers[i].password,
               error |-> r.error, user |-> r.user,
               usersBefore |-> aUsers, sessionBefore |-> aSession,
               usersAfter |-> r.users, sessionAfter |-> r.session]
  /\ UNCHANGED <<pc, aCallback, aListeners, aUnsubscribed, aRemovedOther,
                 aDelivered, aAfterUnsubscribe, aOutOfOrder, aCallCount, aSignedOut, notAuth>>

\* The 500 ms timer of a signUp fires: the rest of the function runs.
ResumeSignUp ==
  \E i \in 1..Len(aTimers), id \in NewIds :
    /\ CanFire(i)
    /\ aTimers[i].kind = "sleep" /\ aTimers[i].fn = "signUp"
    /\ Resumed(i, signUp(aUsers, aSession, aTimers[i].email,
                         aTimers[i].password, id))

\* The 500 ms timer of a signIn fires: the rest of the function runs.
ResumeSignIn ==
  \E i \in 1..Len(aTimers) :
    /\ CanFire(i)
    /\ aTimers[i].kind = "sleep" /\ aTimers[i].fn = "signIn"
    /\ Resumed(i, signIn(aUsers, aSession, aTimers[i].email,
                         aTimers[i].password))

\* Bug variant of signOut: the session is removed and no callback timer is
\* scheduled.
signOutNoTimer ==
  /\ aCallCount < MaxAuthCalls
  /\ aCallCount' = aCallCount + 1
  /\ aSession' = NullSession
  /\ aWrites' = aWrites + 1
  /\ aSignedOut' = TRUE
  /\ UNCHANGED <<pc, aUsers, aCallback, aTimers, aListeners, aUnsubscribed,
                 aRemovedOther, aDelivered, aAfterUnsubscribe, aOutOfOrder,
                 aLast, notAuth>>

\* mockAuth.signOut(): the whole body runs at the call.
signOut ==
  /\ aCallCount < MaxAuthCalls
  /\ aCallCount' = aCallCount + 1
  /\ aSession' = NullSession
  /\ aWrites' = aWrites + 1
  /\ aTimers' = Append(aTimers, Notify("SIGNED_OUT", NullSession, aWrites + 1))
  /\ aSignedOut' = TRUE
  /\ UNCHANGED <<pc, aUsers, aCallback, aListeners, aUnsubscribed,
                 aRemovedOther, aDelivered, aAfterUnsubscribe, aOutOfOrder, aLast, notAuth>>

\* mockAuth.onAuthStateChange(callback) with a new listener.
onAuthStateChange ==
  /\ aListeners < MaxListeners
  /\ aListeners' = aListeners + 1
  /\ aCallback' = aListeners + 1
  /\ aTimers' = Append(aTimers, Initial(aListeners + 1, getSession(aSession)))
  /\ UNCHANGED <<pc, aUsers, aSession, aUnsubscribed, aRemovedOther,
                 aDelivered, aAfterUnsubscribe, aOutOfOrder, aCallCount, aWrites, aSignedOut, aLast, notAuth>>

\* The unsubscribe() returned for listener l: delete window.__authCallback.
unsubscribe(l) ==
  /\ l \in 1..aListeners
  /\ l \notin aUnsubscribed
  /\ aUnsubscribed' = aUnsubscribed \cup {l}
  /\ aRemovedOther' = (aRemovedOther \/ aCallback \notin {0, l})
  /\ aCallback' = 0
  /\ UNCHANGED <<pc, aUsers, aSession, aTimers, aListeners, aDelivered, aAfterUnsubscribe, aOutOfOrder,
                 aCallCount, aWrites, aSignedOut, aLast, notAuth>>

\* A 100 ms timer fires: the callback found in window.__authCallback, if any,
\* is invoked.
FireNotify ==
  \E i \in 1..Len(aTimers) :
    /\ CanFire(i)
    /\ aTimers[i].kind = "notify"
    /\ aTimers' = RemoveAt(aTimers, i)
    /\ IF aCallback # 0
         THEN Invoke(aCallback, aTimers[i].event, aTimers[i].session,
                     aTimers[i].write)
         ELSE UNCHANGED <<aDelivered, aAfterUnsubscribe, aOutOfOrder>>
    /\ UNCHANGED <<pc, aUsers, aSession, aCallback, aListeners, aUnsubscribed,
                   aRemovedOther, aCallCount, aWrites, aSignedOut, aLast,
                   notAuth>>

\* The 0 ms timer of a registration fires: the callback it captured is
\* invoked with the session read at the registration.
FireInitial ==
  \E i \in 1..Len(aTimers) :
    /\ CanFire(i)
    /\ aTimers[i].kind = "initial"
    /\ aTimers' = RemoveAt(aTimers, i)
    /\ Invoke(aTimers[i].listener, aTimers[i].event, aTimers[i].session,
              aTimers[i].write)
    /\ UNCHANGED <<pc, aUsers, aSession, aCallback, aListeners, aUnsubscribed,
                   aRemovedOther, aCallCount, aWrites, aSignedOut, aLast,
                   notAuth>>

NextAuth ==
  \/ \E email \in AuthEmails : CallSignUp(email, "pw1")
  \/ \E email \in AuthEmails, password \in AuthPasswords :
       CallSignIn(email, password)
  \/ ResumeSignUp
  \/ ResumeSignIn
  \/ signOut
  \/ onAuthStateChange
  \/ \E l \in 1..MaxListeners : unsubscribe(l)
  \/ FireNotify
  \/ FireInitial

SpecAuth == InitAuth /\ [][NextAuth]_vars

\* C23: after the unsubscribe() returned by mockAuth.onAuthStateChange(cb) has
\* been called, cb is never invoked again -- neither by the pending
\* INITIAL_SESSION timer scheduled at registration nor by the timers of
\* sign-in, sign-up or sign-out calls -- and unsubscribe() removes only the
\* listener it was returned for.
C23_UnsubscribeStopsCallback ==
  /\ ~aAfterUnsubscribe
  /\ ~aRemovedOther

Emails(users) == {users[i].email : i \in 1..Len(users)}

\* C24: under every interleaving of mockAuth.signUp calls running on one
\* event loop, the stored user list never holds two users with the same
\* email; a signUp for an email already stored returns the error 'User already
\* exists' and leaves the user list and the stored session unchanged.
C24_SignUpKeepsEmailsUnique ==
  /\ \A i, j \in 1..Len(aUsers.list) :
       aUsers.list[i].email = aUsers.list[j].email => i = j
  /\ (aLast.fn = "signUp" /\ aLast.email \in Emails(aLast.usersBefore.list))
     => /\ aLast.error = "User already exists"
        /\ aLast.usersAfter = aLast.usersBefore
        /\ aLast.sessionAfter = aLast.sessionBefore

\* Two signUp calls for new@example.com: the first stored the user, the second
\* returned the error.
C24_Witness ==
  /\ aCallCount = 2
  /\ aTimers = <<>>
  /\ aLast.fn = "signUp"
  /\ aLast.email = "new@example.com"
  /\ aLast.error = "User already exists"
  /\ Len(aUsers.list) = 3
  /\ aUsers.list[3].email = "new@example.com"

\* C25: a sign-out is final -- once mockAuth.signOut() has been called and no
\* signIn or signUp is invoked afterwards, getSession() returns null in every
\* later state and the last event delivered to the listener is SIGNED_OUT,
\* also when a signIn or signUp started before the signOut is still in its
\* 500 ms delay.
C25_SignOutIsFinal ==
  aSignedOut
  => /\ getSession(aSession) = NullSession
     /\ (aTimers = <<>> /\ aCallback # 0
           /\ aDelivered.event \in {"SIGNED_IN", "SIGNED_OUT"})
        => aDelivered.event = "SIGNED_OUT"

\* C29: mockAuth.signIn(email, password) does not depend on the password --
\* its result and the session it stores are fixed by the user store and the
\* email alone; the call stores a session if and only if a user with that
\* email exists, and otherwise returns 'Invalid login credentials' and leaves
\* the stored session unchanged.
C29_SignInIgnoresPassword ==
  aLast.fn = "signIn"
  => LET users == IF aLast.usersBefore.present
                    THEN aLast.usersBefore.list ELSE defaultUsers
     IN  IF aLast.email \in Emails(users)
           THEN /\ aLast.error = ""
                /\ aLast.user.email = aLast.email
                /\ \E i \in 1..Len(users) : users[i] = aLast.user
                /\ aLast.sessionAfter =
                     [user |-> aLast.user,
                      access_token |-> <<"mock_token_", aLast.user.id>>]
           ELSE /\ aLast.error = "Invalid login credentials"
                /\ aLast.sessionAfter = aLast.sessionBefore

\* signIn for demo@example.com with the password "pw2" stored the session of
\* the demo user although a null session was stored before.
C29_Witness ==
  /\ aLast.fn = "signIn"
  /\ aLast.email = "demo@example.com"
  /\ aLast.password = "pw2"
  /\ aLast.sessionBefore = NullSession
  /\ aLast.error = ""
  /\ aLast.sessionAfter.user = [id |-> "1", email |-> "demo@example.com"]

\* C30: with one listener registered through mockAuth.onAuthStateChange and
\* never replaced, after any sequence of signUp, signIn and signOut calls,
\* whenever no auth timer is pending the session most recently delivered to
\* the listener equals the session returned by getSession(), and events are
\* delivered in the order in which the session store was written.
C30_ListenerSeesStoredSession ==
  (aListeners = 1 /\ aUnsubscribed = {})
  => /\ ~aOutOfOrder
     /\ aTimers = <<>>
          => (aDelivered.listener = 1
                /\ aDelivered.session = getSession(aSession))

\* A signIn and then a signOut: both events have reached the listener, the
\* SIGNED_OUT of the second write last.
C30_Witness ==
  /\ aListeners = 1 /\ aUnsubscribed = {}
  /\ aTimers = <<>>
  /\ aCallCount = 2
  /\ aWrites = 2
  /\ aLast.fn = "signIn"
  /\ aDelivered = [listener |-> 1, event |-> "SIGNED_OUT",
                    session |-> NullSession, write |-> 2]

(***************************************************************************)
(* ChatView: the message list of the selected chat, the send handler with  *)
(* its simulated reply, and the encode / decode entries of the message     *)
(* menu and of the batch toolbar.  A message carries, besides the fields   *)
(* the handlers read, the chat that was selected when it was created       *)
(* (chat) and its content before the last batch encoding (original,        *)
(* stage); these three record history and are read by no handler.          *)
(***************************************************************************)
\* The lock marker as chat-view.tsx spells it: U+F8FF, u-umlaut, i- and
\* e-circumflex.
ChatMarker == <<63743, 252, 238, 234>>

\* The lock marker as message-context-menu.tsx spells it: U+1F510, a surrogate
\* pair.
MenuMarker == <<55357, 56592>>

\* "Welcome to SecureChat! This is a demo message."
ContentWelcome ==
  <<87, 101, 108, 99, 111, 109, 101, 32, 116, 111, 32, 83, 101, 99, 117,
    114, 101, 67, 104, 97, 116, 33, 32, 84, 104, 105, 115, 32, 105, 115,
    32, 97, 32, 100, 101, 109, 111, 32, 109, 101, 115, 115, 97, 103, 101,
    46>>

\* "All your messages are end-to-end encrypted for maximum security! " and a
\* marker of four code units
ContentEncrypted ==
  <<65, 108, 108, 32, 121, 111, 117, 114, 32, 109, 101, 115, 115, 97, 103,
    101, 115, 32, 97, 114, 101, 32, 101, 110, 100, 45, 116, 111, 45, 101,
    110, 100, 32, 101, 110, 99, 114, 121, 112, 116, 101, 100, 32, 102, 111,
    114, 32, 109, 97, 120, 105, 109, 117, 109, 32, 115, 101, 99, 117, 114,
    105, 116, 121, 33, 32, 63743, 252, 238, 237>>

\* "This is a private conversation between you and Test User."
ContentPrivate ==
  <<84, 104, 105, 115, 32, 105, 115, 32, 97, 32, 112, 114, 105, 118, 97,
    116, 101, 32, 99, 111, 110, 118, 101, 114, 115, 97, 116, 105, 111, 110,
    32, 98, 101, 116, 119, 101, 101, 110, 32, 121, 111, 117, 32, 97, 110,
    100, 32, 84, 101, 115, 116, 32, 85, 115, 101, 114, 46>>

\* "You can send messages here and they will be stored locally in your
\* browser."
ContentStored ==
  <<89, 111, 117, 32, 99, 97, 110, 32, 115, 101, 110, 100, 32, 109, 101,
    115, 115, 97, 103, 101, 115, 32, 104, 101, 114, 101, 32, 97, 110, 100,
    32, 116, 104, 101, 121, 32, 119, 105, 108, 108, 32, 98, 101, 32, 115,
    116, 111, 114, 101, 100, 32, 108, 111, 99, 97, 108, 108, 121, 32, 105,
    110, 32, 121, 111, 117, 114, 32, 98, 114, 111, 119, 115, 101, 114, 46>>

\* 'Thanks for your message: "'
ContentThanks ==
  <<84, 104, 97, 110, 107, 115, 32, 102, 111, 114, 32, 121, 111, 117, 114,
    32, 109, 101, 115, 115, 97, 103, 101, 58, 32, 34>>

Message(id, content, sender_id, chat) ==
  [id |-> id, content |-> content, sender_id |-> sender_id,
   chat |-> chat, original |-> content, stage |-> "plain"]

\* mockMessages[chatId] || []
mockMessages(id) ==
  IF id = "1"
    THEN <<Message(1, ContentWelcome, "2", "1"),
           Message(2, ContentEncrypted, "2", "1")>>
  ELSE IF id = "2"
    THEN <<Message(3, ContentPrivate, "2", "2"),
           Message(4, ContentStored, "2", "2")>>
  ELSE <<>>

\* String.prototype.trim
RECURSIVE TrimEnd(_)
TrimEnd(s) ==
  IF Len(s) > 0 /\ IsJsWhitespace(s[Len(s)])
    THEN TrimEnd(SubSeq(s, 1, Len(s) - 1)) ELSE s

trim(s) == TrimEnd(TrimStart(s))

\* String.prototype.startsWith
startsWith(s, prefix) ==
  /\ Len(s) >= Len(prefix)
  /\ SubSeq(s, 1, Len(prefix)) = prefix

\* String.prototype.slice(start) for a start within the string
slice(s, start) == SubSeq(s, start + 1, Len(s))

\* includes of an array
includes(seq, x) == \E i \in 1..Len(seq) : seq[i] = x

\* handleQuickEncode: the text passed to onLoadToInput.
quickEncode(messageContent) ==
  MenuMarker \o <<32>> \o encodeMessage(messageContent, 3)

\* handleQuickDecode: the text passed to onLoadToInput.
quickDecode(messageContent) ==
  LET textToDecode == IF startsWith(messageContent, MenuMarker \o <<32>>)
                        THEN slice(messageContent, 2)
                        ELSE messageContent
  IN  decodeMessage(textToDecode, 3)

\* handleBatchEncode: the map callback.
batchEncode(message, selected) ==
  IF includes(selected, message.id)
    THEN [message EXCEPT
            !.content = ChatMarker \o <<32>> \o encodeMessage(message.content, 3),
            !.original = message.content,
            !.stage = "encoded"]
    ELSE message

\* handleBatchDecode: the map callback.
batchDecode(message, selected) ==
  IF includes(selected, message.id)
       /\ startsWith(message.content, ChatMarker \o <<32>>)
    THEN [message EXCEPT
            !.content = decodeMessage(slice(message.content, 2), 3),
            !.stage = IF message.stage = "encoded" THEN "decoded"
                      ELSE message.stage]
    ELSE message

\* setTimeout(() => { setMessages(mockMessages[chatId] || []); ... }, 300)
LoadTimer(id) == [kind |-> "load", chat |-> id, content |-> <<>>, delay |-> 300]

\* setTimeout(() => { ... setMessages(prev => [...prev, responseMsg]) }, 1000)
ReplyTimer(messageContent, id) ==
  [kind |-> "reply", chat |-> id, content |-> messageContent, delay |-> 1000]

\* A pending timer may run when no timer scheduled before it is due earlier
\* or at the same time.
ChatCanFire(i) ==
  /\ i \in 1..Len(chatTimers)
  /\ \A j \in 1..(i - 1) : chatTimers[j].delay > chatTimers[i].delay

\* Bound of the ChatView runs: the number of user operations.
MaxChatOps == 4

\* The chats of the chat list.
ChatIds == {"1", "2"}

\* What the user types: "hi" and a blank.
ChatTexts == {<<104, 105>>, <<32>>}

\* ChatView is mounted for a selected chat: the load effect has run.
InitChat ==
  /\ pc = "chat"
  /\ chatId \in ChatIds
  /\ messages = <<>>
  /\ newMessage = <<>>
  /\ selectedMessages = <<>>
  /\ chatTimers = <<LoadTimer(chatId)>>
  /\ chatNow = 10
  /\ chatOps = 0
  /\ chatMisdelivered = FALSE
  /\ lastQuick = NoQuick
  /\ NotChatIdle

\* Index.handleChatSelect(id): the chatId prop changes and the load effect of
\* ChatView runs again.
handleChatSelect(id) ==
  /\ chatOps < MaxChatOps
  /\ id # chatId
  /\ chatOps' = chatOps + 1
  /\ chatId' = id
  /\ chatTimers' = Append(chatTimers, LoadTimer(id))
  /\ UNCHANGED <<pc, messages, newMessage, selectedMessages, chatNow,
                 chatMisdelivered, lastQuick, notChat>>

\* handleInputChange: the user edits the input field.
handleInputChange(value) ==
  /\ newMessage # value
  /\ newMessage' = value
  /\ UNCHANGED <<pc, chatId, messages, selectedMessages, chatTimers, chatNow,
                 chatOps, chatMisdelivered, lastQuick, notChat>>

\* handleSendMessage
handleSendMessage ==
  /\ chatOps < MaxChatOps
  /\ chatOps' = chatOps + 1
  /\ IF trim(newMessage) = <<>>
       THEN UNCHANGED <<messages, newMessage, chatTimers, chatNow>>
       ELSE LET messageContent == trim(newMessage)
            IN  /\ newMessage' = <<>>
                /\ messages' = Append(messages,
                                 Message(chatNow, messageContent, "1", chatId))
                /\ chatTimers' = Append(chatTimers,
                                   ReplyTimer(messageContent, chatId))
                /\ chatNow' = chatNow + 2
  /\ UNCHANGED <<pc, chatId, selectedMessages, chatMisdelivered, lastQuick,
                 notChat>>

\* The callback of the load timer.
FireLoad ==
  \E i \in 1..Len(chatTimers) :
    /\ ChatCanFire(i)
    /\ chatTimers[i].kind = "load"
    /\ messages' = mockMessages(chatTimers[i].chat)
    /\ chatTimers' = RemoveAt(chatTimers, i)
    /\ UNCHANGED <<pc, chatId, newMessage, selectedMessages, chatNow, chatOps,
                   chatMisdelivered, lastQuick, notChat>>

\* The callback of the reply timer.
FireReply ==
  \E i \in 1..Len(chatTimers) :
    /\ ChatCanFire(i)
    /\ chatTimers[i].kind = "reply"
    /\ messages' = Append(messages,
                     Message(chatNow + 1,
                             ContentThanks \o chatTimers[i].content \o <<34>>,
                             "2", chatTimers[i].chat))
    /\ chatNow' = chatNow + 2
    /\ chatMisdelivered' =
         (chatMisdelivered
            \/ (chatTimers[i].chat # chatId
                  /\ \A j \in 1..Len(chatTimers) : chatTimers[j].kind # "load"))
    /\ chatTimers' = RemoveAt(chatTimers, i)
    /\ UNCHANGED <<pc, chatId, newMessage, selectedMessages, chatOps,
                   lastQuick, notChat>>

selectAllMessages ==
  /\ chatOps < MaxChatOps
  /\ chatOps' = chatOps + 1
  /\ selectedMessages' = [i \in 1..Len(messages) |-> messages[i].id]
  /\ UNCHANGED <<pc, chatId, messages, newMessage, chatTimers, chatNow,
                 chatMisdelivered, lastQuick, notChat>>

handleBatchEncode ==
  /\ chatOps < MaxChatOps
  /\ chatOps' = chatOps + 1
  /\ IF Len(selectedMessages) = 0
       THEN UNCHANGED <<messages, selectedMessages>>
       ELSE /\ messages' = [i \in 1..Len(messages) |->
                              batchEncode(messages[i], selectedMessages)]
            /\ selectedMessages' = <<>>
  /\ UNCHANGED <<pc, chatId, newMessage, chatTimers, chatNow,
                 chatMisdelivered, lastQuick, notChat>>

handleBatchDecode ==
  /\ chatOps < MaxChatOps
  /\ chatOps' = chatOps + 1
  /\ IF Len(selectedMessages) = 0
       THEN UNCHANGED <<messages, selectedMessages>>
       ELSE /\ messages' = [i \in 1..Len(messages) |->
                              batchDecode(messages[i], selectedMessages)]
            /\ selectedMessages' = <<>>
  /\ UNCHANGED <<pc, chatId, newMessage, chatTimers, chatNow,
                 chatMisdelivered, lastQuick, notChat>>

\* Quick Encode in the context menu of message i.
handleQuickEncode(i) ==
  /\ chatOps < MaxChatOps
  /\ chatOps' = chatOps + 1
  /\ newMessage' = quickEncode(messages[i].content)
  /\ lastQuick' = [op |-> "encode", content |-> messages[i].content,
                   loaded |-> newMessage']
  /\ UNCHANGED <<pc, chatId, messages, selectedMessages, chatTimers, chatNow,
                 chatMisdelivered, notChat>>

\* Quick Decode in the context menu of message i.
handleQuickDecode(i) ==
  /\ chatOps < MaxChatOps
  /\ chatOps' = chatOps + 1
  /\ newMessage' = quickDecode(messages[i].content)
  /\ lastQuick' = [op |-> "decode", content |-> messages[i].content,
                   loaded |-> newMessage']
  /\ UNCHANGED <<pc, chatId, messages, selectedMessages, chatTimers, chatNow,
                 chatMisdelivered, notChat>>

NextChat ==
  \/ \E id \in ChatIds : handleChatSelect(id)
  \/ \E value \in ChatTexts : handleInputChange(value)
  \/ handleSendMessage
  \/ FireLoad
  \/ FireReply
  \/ selectAllMessages
  \/ handleBatchEncode
  \/ handleBatchDecode
  \/ \E i \in 1..Len(messages) : handleQuickEncode(i)
  \/ \E i \in 1..Len(messages) : handleQuickDecode(i)

SpecChat == InitChat /\ [][NextChat]_vars

\* C26: in ChatView, once the 300 ms load for the currently selected chat has
\* run and all timers have fired, the message list holds only that chat's
\* initial messages plus the messages sent and the auto-replies to messages
\* sent while that chat was selected; an auto-reply scheduled by
\* handleSendMessage in one chat is never appended to the list of a chat
\* selected afterwards.
C26_MessagesBelongToSelectedChat ==
  /\ chatTimers = <<>>
       => \A i \in 1..Len(messages) : messages[i].chat = chatId
  /\ ~chatMisdelivered

\* C27: the encode / decode pairs of the UI round-trip: for every ASCII message
\* content m, Quick Decode applied to the Quick Encode of m passes exactly m to
\* onLoadToInput, and a batch Decode after a batch Encode restores each
\* message's content exactly, marker prefix and separating space removed.
C27_UiEncodeDecodeRoundTrip ==
  /\ \A i \in 1..Len(messages) :
       LET m == messages[i].content
       IN  (IsAscii(m) /\ lastQuick.op = "decode"
              /\ lastQuick.content = quickEncode(m))
           => lastQuick.loaded = m
  /\ \A i \in 1..Len(messages) :
       (messages[i].stage = "decoded" /\ IsAscii(messages[i].original))
       => messages[i].content = messages[i].original

====
